---- MODULE Spec2Model ----
(***************************************************************************)
(* A model of the PPP backend's materials, products and bulk import        *)
(* handlers (src/app/api/v1/endpoints).                                     *)
(*                                                                         *)
(* Numbers.  The handlers compute on Python floats.  A float is modelled   *)
(* as a non-negative binary floating-point number with MantissaBits        *)
(* significant bits and a smallest spacing of 2^-FracBits, written as the  *)
(* integer count of that spacing (so 1.0 is Pow2(FracBits)).  Every        *)
(* operation rounds its exact result to the nearest representable value,   *)
(* ties to even, as IEEE 754 does.  Python's binary64 has 53 significant   *)
(* bits; the model keeps the rounding and shrinks the width.               *)
(*                                                                         *)
(* Strings.  A str is a sequence of character codes, so that str.lower()   *)
(* is computed character by character.                                     *)
(*                                                                         *)
(* Store.  The four tables are sets of rows.  Ids are assigned from        *)
(* per-table counters, as the AUTO_INCREMENT keys of the configured MySQL  *)
(* database are.  The store keeps every value as it was written.           *)
(*                                                                         *)
(* Time.  datetime.now(timezone.utc) is read from a clock that does not go *)
(* back: a reading is the last reading or a later one.                     *)
(*                                                                         *)
(* Transactions.  A request is answered in one step, except in the         *)
(* specification of concurrent imports, where an import is the steps       *)
(* between its statements that reach the database: query, flush, commit,   *)
(* and the product loop between the last two.                              *)
(***************************************************************************)
EXTENDS Integers, Sequences, FiniteSets, TLC

\* ------------------------------------------------------------------ bounds
MantissaBits == 5
FracBits == 1
MaxMaterials == 2
MaxProducts == 1
MaxRows == 1
MaxLines == 1
MaxImportMaterials == 2
MaxImportProducts == 2
MaxImportRows == 2
MaxImportLines == 3
MaxCrudMaterials == 2
MaxCrudProducts == 1
MaxCrudChildren == 3
MaxClock == 3
MaxCaseLines == 2
MaxRerunLines == 2

\* ------------------------------------------------------------------ floats
RECURSIVE Pow2(_)
Pow2(n) == IF n = 0 THEN 1 ELSE 2 * Pow2(n - 1)

\* The float 1.0, and the float of a small integer or of a half.
One == Pow2(FracBits)
F(n) == n * One
Half == Pow2(FracBits - 1)

\* The spacing of the floats around the exact value p/q (q > 0).
RECURSIVE Ulp(_, _, _)
Ulp(p, q, u) == IF p < q * u * Pow2(MantissaBits) THEN u ELSE Ulp(p, q, 2 * u)

\* p/q rounded to the nearest float, ties to the even significand.
RoundRat(p, q) ==
    LET u == Ulp(p, q, 1)
        d == q * u
        m == p \div d
        r == p - m * d
    IN  IF 2 * r < d THEN m * u
        ELSE IF 2 * r > d THEN (m + 1) * u
        ELSE IF m % 2 = 0 THEN m * u
        ELSE (m + 1) * u

fadd(a, b) == RoundRat(a + b, 1)
fmul(a, b) == RoundRat(a * b, One)
fdiv(a, b) == RoundRat(a * One, b)

\* The literal 100.0 of the margin formula.
Hundred == F(100)

\* ----------------------------------------------------------------- strings
\* str.lower() on ASCII text.
LowerChar(c) == IF c \in 65..90 THEN c + 32 ELSE c
Lower(s) == [i \in 1..Len(s) |-> LowerChar(s[i])]

\* ------------------------------------------------------------------- state
VARIABLES
    materials,            \* table materials: set of rows
    products,             \* table products: set of rows
    product_entries,      \* table product_entries: set of rows
    material_snapshots,   \* table material_snapshots: set of rows
    next_id,              \* the next key of each table
    call,                 \* the request being answered and its response
    before,               \* history: the tables as that request found them
    now,                  \* the last reading of the clock
    sessions              \* the imports in flight, one database session each

vars == <<materials, products, product_entries, material_snapshots, next_id, call,
          before, now, sessions>>
store == <<materials, products, product_entries, material_snapshots, next_id>>

\* The tables, as a record.
Tables ==
    [materials |-> materials, products |-> products,
     product_entries |-> product_entries, material_snapshots |-> material_snapshots]

Users == {1, 2}

\* The database sessions of the requests that run side by side.
Sessions == {1, 2}

\* A session that runs no import.
NoSession == [pc |-> "idle"]

\* No request is being answered.
NoCall == [op |-> "none"]

Init ==
    /\ materials = {}
    /\ products = {}
    /\ product_entries = {}
    /\ material_snapshots = {}
    /\ next_id = [material |-> 1, product |-> 1, entry |-> 1, snapshot |-> 1]
    /\ call = NoCall
    /\ before = Tables
    /\ now = 0
    /\ sessions = [s \in Sessions |-> NoSession]

\* datetime.now(timezone.utc) read at or after time t.
Readings(t) == {t, t + 1}

\* created_at and updated_at: Column(DateTime, default=lambda: datetime.now(...)).
Stamped(rows, created_at, updated_at) ==
    {r @@ [created_at |-> created_at, updated_at |-> updated_at] : r \in rows}

\* created_at = Column(DateTime, default=lambda: datetime.now(timezone.utc)), set
\* on the rows that are inserted.
Created(rows, created_at) ==
    {IF "created_at" \in DOMAIN r THEN r ELSE r @@ [created_at |-> created_at] :
        r \in rows}

\* The rows of a set in the order of their ids.
RECURSIVE SortById(_)
SortById(rows) ==
    IF rows = {} THEN <<>>
    ELSE LET last == CHOOSE r \in rows : \A o \in rows : o.id <= r.id
         IN  Append(SortById(rows \ {last}), last)

\* db.query(Material).filter(Material.user_id == current_user.id)
OwnMaterials(user) == {m \in materials : m.user_id = user}

\* .filter(Material.id == material_id, Material.user_id == current_user.id)
FindMaterial(user, material_id) ==
    {m \in materials : m.id = material_id /\ m.user_id = user}

\* --------------------------------------------------------------- materials
\* market_price = data.price_amount / data.price_quantity if data.price_quantity else 0.0
create_market_price(data) ==
    IF data.price_quantity # 0 THEN fdiv(data.price_amount, data.price_quantity) ELSE 0

\* Mutant: a name the caller already has, in any letter case, is refused.
CreateMaterialUnique(user, data) ==
    /\ call = NoCall
    /\ before' = Tables
    /\ UNCHANGED sessions
    /\ \E created_at \in Readings(now) :
       LET material == [id |-> next_id.material,
                        user_id |-> user,
                        name |-> data.name,
                        unit |-> data.unit,
                        price_amount |-> data.price_amount,
                        price_quantity |-> data.price_quantity,
                        market_price_per_unit |-> create_market_price(data),
                        created_at |-> created_at]
       IN  IF \E m \in materials : m.user_id = user /\ Lower(m.name) = Lower(data.name)
           THEN /\ call' = [op |-> "create_material", user |-> user, data |-> data,
                            status |-> 409]
                /\ UNCHANGED <<materials, next_id, now>>
           ELSE /\ now' = created_at
                /\ materials' = materials \cup {material}
                /\ next_id' = [next_id EXCEPT !.material = @ + 1]
                /\ call' = [op |-> "create_material", user |-> user, data |-> data,
                            status |-> 201, body |-> material]
    /\ UNCHANGED <<products, product_entries, material_snapshots>>

\* POST /materials
CreateMaterial(user, data) ==
    /\ call = NoCall
    /\ before' = Tables
    /\ UNCHANGED sessions
    /\ \E created_at \in Readings(now) :
       LET material == [id |-> next_id.material,
                        user_id |-> user,
                        name |-> data.name,
                        unit |-> data.unit,
                        price_amount |-> data.price_amount,
                        price_quantity |-> data.price_quantity,
                        market_price_per_unit |-> create_market_price(data),
                        created_at |-> created_at]
       IN  /\ now' = created_at
           /\ materials' = materials \cup {material}
           /\ next_id' = [next_id EXCEPT !.material = @ + 1]
           /\ call' = [op |-> "create_material", user |-> user, data |-> data,
                       status |-> 201, body |-> material]
    /\ UNCHANGED <<products, product_entries, material_snapshots>>

\* The fields of the row after the four "if data.<field> is not None" assignments.
Supplied(data, field, old) == IF field \in DOMAIN data THEN data[field] ELSE old

update_fields(material, data) ==
    [material EXCEPT !.name = Supplied(data, "name", @),
                     !.unit = Supplied(data, "unit", @),
                     !.price_amount = Supplied(data, "price_amount", @),
                     !.price_quantity = Supplied(data, "price_quantity", @)]

\* Mutant: the derived price is not recomputed on update.
update_market_price_stale(material) == material.market_price_per_unit

\* material.market_price_per_unit = (material.price_amount / material.price_quantity
\*                                   if material.price_quantity else 0.0)
update_market_price(material) ==
    IF material.price_quantity # 0
    THEN fdiv(material.price_amount, material.price_quantity)
    ELSE 0

\* Mutant: the update is carried into the snapshots taken of the material.
UpdateMaterialCascading(user, material_id, data) ==
    /\ call = NoCall
    /\ before' = Tables
    /\ UNCHANGED <<now, sessions>>
    /\ LET found == FindMaterial(user, material_id)
       IN  IF found = {}
           THEN /\ call' = [op |-> "update_material", user |-> user,
                            material_id |-> material_id, data |-> data,
                            status |-> 404]
                /\ UNCHANGED store
           ELSE LET old == CHOOSE m \in found : TRUE
                    set == update_fields(old, data)
                    new == [set EXCEPT !.market_price_per_unit = update_market_price(set)]
                IN  /\ materials' = (materials \ {old}) \cup {new}
                    /\ material_snapshots' =
                           {IF s.material_id = new.id
                            THEN [s EXCEPT !.name = new.name,
                                           !.unit = new.unit,
                                           !.price_amount = new.price_amount,
                                           !.price_quantity = new.price_quantity,
                                           !.market_price_per_unit =
                                               new.market_price_per_unit]
                            ELSE s : s \in material_snapshots}
                    /\ call' = [op |-> "update_material", user |-> user,
                                material_id |-> material_id, data |-> data,
                                status |-> 200, body |-> new]
                    /\ UNCHANGED <<products, product_entries, next_id>>

\* PUT /materials/{material_id}; data holds the fields that are not None.
UpdateMaterial(user, material_id, data) ==
    /\ call = NoCall
    /\ before' = Tables
    /\ UNCHANGED <<now, sessions>>
    /\ LET found == FindMaterial(user, material_id)
       IN  IF found = {}
           THEN /\ call' = [op |-> "update_material", user |-> user,
                            material_id |-> material_id, data |-> data,
                            status |-> 404]
                /\ UNCHANGED store
           ELSE LET old == CHOOSE m \in found : TRUE
                    set == update_fields(old, data)
                    new == [set EXCEPT !.market_price_per_unit = update_market_price(set)]
                IN  /\ materials' = (materials \ {old}) \cup {new}
                    /\ call' = [op |-> "update_material", user |-> user,
                                material_id |-> material_id, data |-> data,
                                status |-> 200, body |-> new]
                    /\ UNCHANGED <<products, product_entries, material_snapshots, next_id>>

\* Optional[int] = None: the null material reference (ids start at 1).
None == 0

\* Material.name.ilike(f"%{search}%"): search occurs in name, whatever the case.
Contains(name, search) ==
    \E i \in 0..(Len(name) - Len(search)) :
        SubSeq(Lower(name), i + 1, i + Len(search)) = Lower(search)

\* The orders in which a query returns rows under ORDER BY <column> DESC.
OrdersByDesc(rows, column) ==
    {o \in [1..Cardinality(rows) -> rows] :
        /\ \A i, j \in 1..Cardinality(rows) : o[i] = o[j] => i = j
        /\ \A i, j \in 1..Cardinality(rows) : i < j => o[i][column] >= o[j][column]}

\* GET /materials; search is empty when the parameter is absent.
ListMaterials(user, search) ==
    /\ call = NoCall
    /\ before' = Tables
    /\ UNCHANGED <<store, now, sessions>>
    /\ LET query == {m \in OwnMaterials(user) :
                        search = <<>> \/ Contains(m.name, search)}
       IN  \E body \in OrdersByDesc(query, "created_at") :
               call' = [op |-> "list_materials", user |-> user, search |-> search,
                        status |-> 200, body |-> body]

\* ForeignKey("materials.id", ondelete="SET NULL") on product_entries.material_id:
\* what the deletion of the materials with these ids makes of the entries.
OnDeleteSetNull(entries, material_ids) ==
    {IF e.material_id \in material_ids THEN [e EXCEPT !.material_id = None] ELSE e :
        e \in entries}

\* DELETE /materials/{material_id}
DeleteMaterial(user, material_id) ==
    /\ call = NoCall
    /\ before' = Tables
    /\ UNCHANGED <<now, sessions>>
    /\ LET found == FindMaterial(user, material_id)
       IN  IF found = {}
           THEN /\ call' = [op |-> "delete_material", user |-> user,
                            material_id |-> material_id, status |-> 404]
                /\ UNCHANGED store
           ELSE /\ materials' = materials \ found
                /\ product_entries' = OnDeleteSetNull(product_entries, {material_id})
                /\ call' = [op |-> "delete_material", user |-> user,
                            material_id |-> material_id, status |-> 204]
                /\ UNCHANGED <<products, material_snapshots, next_id>>

\* Mutant: ids that match none of the caller's materials delete them all.
delete_materials_query_or_all(user, ids) ==
    IF \E m \in OwnMaterials(user) : m.id \in ids
    THEN {m \in OwnMaterials(user) : m.id \in ids}
    ELSE OwnMaterials(user)

\* query = db.query(Material).filter(Material.user_id == current_user.id)
\* if ids: query = query.filter(Material.id.in_(ids))
delete_materials_query(user, ids) ==
    IF ids # {}
    THEN {m \in OwnMaterials(user) : m.id \in ids}
    ELSE OwnMaterials(user)

\* DELETE /materials; ids is empty when the parameter is absent.
DeleteMaterials(user, ids) ==
    /\ call = NoCall
    /\ before' = Tables
    /\ UNCHANGED <<now, sessions>>
    /\ LET deleted == delete_materials_query(user, ids)
       IN  /\ materials' = materials \ deleted
           /\ product_entries' =
                  OnDeleteSetNull(product_entries, {m.id : m \in deleted})
           /\ call' = [op |-> "delete_materials", user |-> user, ids |-> ids,
                       status |-> 204]
           /\ UNCHANGED <<products, material_snapshots, next_id>>

\* ---------------------------------------------------------------- products
\* The FOREIGN KEY product_entries.material_id -> materials.id.
EntriesReferToMaterials(entries) ==
    \A i \in 1..Len(entries) :
        entries[i].material_id = None
        \/ \E m \in materials : m.id = entries[i].material_id

\* The rows of one product's entries or snapshots, keyed first_id, first_id + 1, ...
ChildRows(children, product_id, first_id) ==
    {[id |-> first_id + i - 1, product_id |-> product_id] @@ children[i] :
        i \in 1..Len(children)}

\* Mutant: the line cost of a snapshot is computed, not copied.
_build_entries_and_snapshots_costed(data) ==
    [entries |-> [i \in 1..Len(data.entries) |->
                    [material_id |-> data.entries[i].material_id,
                     quantity_str |-> data.entries[i].quantity_str]],
     snapshots |-> [i \in 1..Len(data.material_snapshots) |->
                    LET s == data.material_snapshots[i]
                    IN  [s EXCEPT !.line_cost =
                                     fmul(s.market_price_per_unit, s.quantity_used)]]]

\* ProductEntry(material_id=e.material_id, quantity_str=e.quantity_str) for e in data.entries
\* MaterialSnapshot(material_id=s.material_id, ...) for s in data.material_snapshots
_build_entries_and_snapshots(data) ==
    [entries |-> [i \in 1..Len(data.entries) |->
                    [material_id |-> data.entries[i].material_id,
                     quantity_str |-> data.entries[i].quantity_str]],
     snapshots |-> [i \in 1..Len(data.material_snapshots) |->
                    LET s == data.material_snapshots[i]
                    IN  [material_id |-> s.material_id,
                         name |-> s.name,
                         unit |-> s.unit,
                         price_amount |-> s.price_amount,
                         price_quantity |-> s.price_quantity,
                         market_price_per_unit |-> s.market_price_per_unit,
                         quantity_used |-> s.quantity_used,
                         line_cost |-> s.line_cost]]]

\* POST /products
CreateProduct(user, data) ==
    /\ call = NoCall
    /\ before' = Tables
    /\ UNCHANGED sessions
    /\ LET built == _build_entries_and_snapshots(data)
           product == [id |-> next_id.product,
                       user_id |-> user,
                       product_name |-> data.product_name,
                       batch_output_quantity |-> data.batch_output_quantity,
                       packaging_cost_per_unit |-> data.packaging_cost_per_unit,
                       margin_percentage |-> data.margin_percentage,
                       total_material_cost |-> data.result.total_material_cost,
                       cost_per_unit |-> data.result.cost_per_unit,
                       final_cost_per_unit |-> data.result.final_cost_per_unit,
                       selling_price |-> data.result.selling_price]
       IN  IF ~EntriesReferToMaterials(built.entries)
           THEN \* IntegrityError at db.commit(): nothing is written.
                /\ call' = [op |-> "create_product", user |-> user, data |-> data,
                            status |-> 500]
                /\ UNCHANGED <<store, now>>
           ELSE \E created_at \in Readings(now) :
                \E updated_at \in Readings(created_at) :
                /\ now' = updated_at
                /\ products' = products
                       \cup Stamped({product}, created_at, updated_at)
                /\ product_entries' = product_entries
                       \cup ChildRows(built.entries, product.id, next_id.entry)
                /\ material_snapshots' = material_snapshots
                       \cup ChildRows(built.snapshots, product.id, next_id.snapshot)
                /\ next_id' = [next_id EXCEPT !.product = @ + 1,
                                              !.entry = @ + Len(built.entries),
                                              !.snapshot = @ + Len(built.snapshots)]
                /\ call' = [op |-> "create_product", user |-> user, data |-> data,
                            status |-> 201,
                            body |-> CHOOSE p \in Stamped({product}, created_at,
                                                          updated_at) : TRUE]
                /\ UNCHANGED materials

\* Mutant: the product is looked up by its id alone.
FindProductOfAnyUser(user, product_id) == {p \in products : p.id = product_id}

\* db.query(Product).filter(Product.id == product_id,
\*                         Product.user_id == current_user.id).first()
FindProduct(user, product_id) ==
    {p \in products : p.id = product_id /\ p.user_id = user}

\* ProductResponse: the product with its entries and snapshots.
ProductResponse(p, entries, snapshots) ==
    [product |-> p,
     entries |-> SortById({e \in entries : e.product_id = p.id}),
     material_snapshots |-> SortById({x \in snapshots : x.product_id = p.id})]

\* GET /products; search is empty when the parameter is absent.
ListProducts(user, search) ==
    /\ call = NoCall
    /\ before' = Tables
    /\ UNCHANGED <<store, now, sessions>>
    /\ LET query == {p \in products :
                        /\ p.user_id = user
                        /\ search = <<>> \/ Contains(p.product_name, search)}
       IN  \E body \in OrdersByDesc(query, "updated_at") :
               call' = [op |-> "list_products", user |-> user, search |-> search,
                        status |-> 200, body |-> body]

\* GET /products/{product_id}
GetProduct(user, product_id) ==
    /\ call = NoCall
    /\ before' = Tables
    /\ UNCHANGED <<store, now, sessions>>
    /\ LET found == FindProduct(user, product_id)
       IN  IF found = {}
           THEN call' = [op |-> "get_product", user |-> user,
                         product_id |-> product_id, status |-> 404]
           ELSE call' = [op |-> "get_product", user |-> user,
                         product_id |-> product_id, status |-> 200,
                         body |-> ProductResponse(CHOOSE p \in found : TRUE,
                                                  product_entries, material_snapshots)]

\* Mutant: a new margin without a result payload reprices the product.
update_product_fields_repriced(product, data, updated_at) ==
    LET result == IF "result" \in DOMAIN data
                  THEN data.result
                  ELSE [total_material_cost |-> product.total_material_cost,
                        cost_per_unit |-> product.cost_per_unit,
                        final_cost_per_unit |-> product.final_cost_per_unit,
                        selling_price |-> product.selling_price]
    IN  [product EXCEPT
            !.product_name = Supplied(data, "product_name", @),
            !.batch_output_quantity = Supplied(data, "batch_output_quantity", @),
            !.packaging_cost_per_unit = Supplied(data, "packaging_cost_per_unit", @),
            !.margin_percentage = Supplied(data, "margin_percentage", @),
            !.total_material_cost = result.total_material_cost,
            !.cost_per_unit = result.cost_per_unit,
            !.final_cost_per_unit = result.final_cost_per_unit,
            !.selling_price =
                IF "margin_percentage" \in DOMAIN data /\ "result" \notin DOMAIN data
                THEN fmul(result.final_cost_per_unit,
                          fadd(One, fdiv(data.margin_percentage, Hundred)))
                ELSE result.selling_price,
            !.updated_at = updated_at]

\* Mutant: an update that supplies nothing leaves updated_at to the column's onupdate,
\* which does not run when no column changed.
update_product_fields_if_changed(product, data, updated_at) ==
    LET result == IF "result" \in DOMAIN data
                  THEN data.result
                  ELSE [total_material_cost |-> product.total_material_cost,
                        cost_per_unit |-> product.cost_per_unit,
                        final_cost_per_unit |-> product.final_cost_per_unit,
                        selling_price |-> product.selling_price]
    IN  [product EXCEPT
            !.product_name = Supplied(data, "product_name", @),
            !.batch_output_quantity = Supplied(data, "batch_output_quantity", @),
            !.packaging_cost_per_unit = Supplied(data, "packaging_cost_per_unit", @),
            !.margin_percentage = Supplied(data, "margin_percentage", @),
            !.total_material_cost = result.total_material_cost,
            !.cost_per_unit = result.cost_per_unit,
            !.final_cost_per_unit = result.final_cost_per_unit,
            !.selling_price = result.selling_price,
            !.updated_at = IF DOMAIN data = {} THEN @ ELSE updated_at]

\* The product row after the "if data.<field> is not None" assignments and
\* product.updated_at = datetime.now(timezone.utc).
update_product_fields(product, data, updated_at) ==
    LET result == IF "result" \in DOMAIN data
                  THEN data.result
                  ELSE [total_material_cost |-> product.total_material_cost,
                        cost_per_unit |-> product.cost_per_unit,
                        final_cost_per_unit |-> product.final_cost_per_unit,
                        selling_price |-> product.selling_price]
    IN  [product EXCEPT
            !.product_name = Supplied(data, "product_name", @),
            !.batch_output_quantity = Supplied(data, "batch_output_quantity", @),
            !.packaging_cost_per_unit = Supplied(data, "packaging_cost_per_unit", @),
            !.margin_percentage = Supplied(data, "margin_percentage", @),
            !.total_material_cost = result.total_material_cost,
            !.cost_per_unit = result.cost_per_unit,
            !.final_cost_per_unit = result.final_cost_per_unit,
            !.selling_price = result.selling_price,
            !.updated_at = updated_at]

\* Mutant: the supplied members are added to the collection that is there.
replaced_children_appended(children, product_id, supplied, first_id) ==
    children \cup ChildRows(supplied, product_id, first_id)

\* for entry in list(product.entries): db.delete(entry)
\* product.entries = [ProductEntry(...) for e in data.entries]
\* and the same for material_snapshots: the table after the replacement.
replaced_children(children, product_id, supplied, first_id) ==
    {c \in children : c.product_id # product_id}
        \cup ChildRows(supplied, product_id, first_id)

\* PUT /products/{product_id}; data holds the fields that are not None.
UpdateProduct(user, product_id, data) ==
    /\ call = NoCall
    /\ before' = Tables
    /\ UNCHANGED sessions
    /\ LET found == FindProduct(user, product_id)
           built == [entries |->
                        IF "entries" \in DOMAIN data
                        THEN [i \in 1..Len(data.entries) |->
                                 [material_id |-> data.entries[i].material_id,
                                  quantity_str |-> data.entries[i].quantity_str]]
                        ELSE <<>>,
                     snapshots |->
                        IF "material_snapshots" \in DOMAIN data
                        THEN data.material_snapshots
                        ELSE <<>>]
       IN  IF found = {}
           THEN /\ call' = [op |-> "update_product", user |-> user,
                            product_id |-> product_id, data |-> data, status |-> 404]
                /\ UNCHANGED <<store, now>>
           ELSE IF ~EntriesReferToMaterials(built.entries)
           THEN \* IntegrityError at db.commit(): nothing is written.
                /\ call' = [op |-> "update_product", user |-> user,
                            product_id |-> product_id, data |-> data, status |-> 500]
                /\ UNCHANGED <<store, now>>
           ELSE \E updated_at \in Readings(now) :
                LET old == CHOOSE p \in found : TRUE
                    new == update_product_fields(old, data, updated_at)
                IN  /\ now' = updated_at
                    /\ products' = (products \ {old}) \cup {new}
                    /\ product_entries' =
                           IF "entries" \in DOMAIN data
                           THEN replaced_children(product_entries, product_id,
                                                  built.entries, next_id.entry)
                           ELSE product_entries
                    /\ material_snapshots' =
                           IF "material_snapshots" \in DOMAIN data
                           THEN replaced_children(material_snapshots, product_id,
                                                  built.snapshots, next_id.snapshot)
                           ELSE material_snapshots
                    /\ next_id' = [next_id EXCEPT
                                      !.entry = @ + Len(built.entries),
                                      !.snapshot = @ + Len(built.snapshots)]
                    /\ call' = [op |-> "update_product", user |-> user,
                                product_id |-> product_id, data |-> data,
                                status |-> 200, time |-> updated_at,
                                body |-> ProductResponse(new, product_entries',
                                                         material_snapshots')]
                    /\ UNCHANGED materials

\* Mutant: the children of a deleted product stay.
WithoutChildrenOfNone(children, deleted) == children

\* Product.entries / Product.material_snapshots, cascade="all, delete-orphan":
\* the children of deleted products are deleted with them.
WithoutChildrenOf(children, deleted) ==
    {c \in children : c.product_id \notin {p.id : p \in deleted}}

\* DELETE /products/{product_id}
DeleteProduct(user, product_id) ==
    /\ call = NoCall
    /\ before' = Tables
    /\ UNCHANGED <<now, sessions>>
    /\ LET found == FindProduct(user, product_id)
       IN  IF found = {}
           THEN /\ call' = [op |-> "delete_product", user |-> user,
                            product_id |-> product_id, status |-> 404]
                /\ UNCHANGED store
           ELSE /\ products' = products \ found
                /\ product_entries' = WithoutChildrenOf(product_entries, found)
                /\ material_snapshots' = WithoutChildrenOf(material_snapshots, found)
                /\ call' = [op |-> "delete_product", user |-> user,
                            product_id |-> product_id, status |-> 204]
                /\ UNCHANGED <<materials, next_id>>

\* query = db.query(Product).filter(Product.user_id == current_user.id)
\* if ids: query = query.filter(Product.id.in_(ids))
delete_products_query(user, ids) ==
    IF ids # {}
    THEN {p \in products : p.user_id = user /\ p.id \in ids}
    ELSE {p \in products : p.user_id = user}

\* DELETE /products; ids is empty when the parameter is absent.
DeleteProducts(user, ids) ==
    /\ call = NoCall
    /\ before' = Tables
    /\ UNCHANGED <<now, sessions>>
    /\ LET deleted == delete_products_query(user, ids)
       IN  /\ products' = products \ deleted
           /\ product_entries' = WithoutChildrenOf(product_entries, deleted)
           /\ material_snapshots' = WithoutChildrenOf(material_snapshots, deleted)
           /\ call' = [op |-> "delete_products", user |-> user, ids |-> ids,
                       status |-> 204]
           /\ UNCHANGED <<materials, next_id>>

\* ------------------------------------------------------------------ import
\* The orders in which a query without ORDER BY may return a set of rows.
Orders(rows) ==
    {o \in [1..Cardinality(rows) -> rows] :
        \A i, j \in 1..Cardinality(rows) : o[i] = o[j] => i = j}

\* Mutant: the map is keyed by the names as they are stored.
existing_key_exact(m) == m.name

\* name_to_material = {m.name.lower(): m for m in existing_materials}:
\* of two rows with one key, the later in the list stays.
existing_key(m) == Lower(m.name)

existing_name_to_material(existing_materials) ==
    LET n == Len(existing_materials)
        keys == {existing_key(existing_materials[i]) : i \in 1..n}
        last(key) == CHOOSE i \in 1..n :
                        /\ existing_key(existing_materials[i]) = key
                        /\ \A j \in 1..n :
                               existing_key(existing_materials[j]) = key => j <= i
    IN  [key \in keys |-> existing_materials[last(key)]]

\* Mutant: the key keeps the letter case of the name.
material_key_exact(mat) == mat.name

\* key = mat.name.lower()
material_key(mat) == Lower(mat.name)

\* market_price = mat.price_amount / mat.price_quantity if mat.price_quantity else 0.0
\* (of an imported material row)
import_market_price(mat) ==
    IF mat.price_quantity # 0 THEN fdiv(mat.price_amount, mat.price_quantity) ELSE 0

\* Mutant: a duplicate row overwrites the price of the material already known.
RECURSIVE import_materials_upsert(_, _, _, _)
import_materials_upsert(user, rows, i, st) ==
    IF i > Len(rows) THEN st
    ELSE LET mat == rows[i]
             key == material_key(mat)
         IN  IF key \in DOMAIN st.name_to_material
             THEN import_materials_upsert(user, rows, i + 1,
                      [st EXCEPT !.materials_duplicated = @ + 1,
                                 !.name_to_material[key] =
                                     [@ EXCEPT !.price_amount = mat.price_amount,
                                               !.price_quantity = mat.price_quantity,
                                               !.market_price_per_unit =
                                                   import_market_price(mat)]])
             ELSE LET new_mat == [id |-> next_id.material + st.materials_added,
                                  user_id |-> user,
                                  name |-> mat.name,
                                  unit |-> mat.unit,
                                  price_amount |-> mat.price_amount,
                                  price_quantity |-> mat.price_quantity,
                                  market_price_per_unit |-> import_market_price(mat)]
                  IN  import_materials_upsert(user, rows, i + 1,
                          [st EXCEPT !.name_to_material = (key :> new_mat) @@ @,
                                     !.materials_added = @ + 1])

\* Phase 1, "for mat in data.materials", from row i on.  A new material gets its id
\* at the flush, in the order of db.add.
RECURSIVE import_materials(_, _, _, _)
import_materials(user, rows, i, st) ==
    IF i > Len(rows) THEN st
    ELSE LET mat == rows[i]
             key == material_key(mat)
         IN  IF key \in DOMAIN st.name_to_material
             THEN import_materials(user, rows, i + 1,
                      [st EXCEPT !.materials_duplicated = @ + 1])
             ELSE LET new_mat == [id |-> next_id.material + st.materials_added,
                                  user_id |-> user,
                                  name |-> mat.name,
                                  unit |-> mat.unit,
                                  price_amount |-> mat.price_amount,
                                  price_quantity |-> mat.price_quantity,
                                  market_price_per_unit |-> import_market_price(mat)]
                  IN  import_materials(user, rows, i + 1,
                          [st EXCEPT !.name_to_material = (key :> new_mat) @@ @,
                                     !.materials_added = @ + 1])

\* Mutant: only adjacent lines of one product name are grouped.
RECURSIVE group_lines_adjacent(_, _, _)
group_lines_adjacent(product_lines, i, groups) ==
    IF i > Len(product_lines) THEN groups
    ELSE LET line == product_lines[i]
         IN  IF groups = <<>> \/ groups[Len(groups)].product_name # line.product_name
             THEN group_lines_adjacent(product_lines, i + 1,
                      Append(groups, [product_name |-> line.product_name,
                                      lines |-> <<line>>]))
             ELSE group_lines_adjacent(product_lines, i + 1,
                      [groups EXCEPT ![Len(groups)].lines = Append(@, line)])

\* Mutant: the groups are keyed by the lower-cased product name.
RECURSIVE group_lines_folded(_, _, _)
group_lines_folded(product_lines, i, groups) ==
    IF i > Len(product_lines) THEN groups
    ELSE LET line == product_lines[i]
             at == {g \in 1..Len(groups) :
                       Lower(groups[g].product_name) = Lower(line.product_name)}
         IN  IF at = {}
             THEN group_lines_folded(product_lines, i + 1,
                      Append(groups, [product_name |-> line.product_name,
                                      lines |-> <<line>>]))
             ELSE LET g == CHOOSE g \in at : TRUE
                  IN  group_lines_folded(product_lines, i + 1,
                          [groups EXCEPT ![g].lines = Append(@, line)])

\* groups[line.product_name].append(line): a dict keeps its keys in insertion order.
RECURSIVE group_lines(_, _, _)
group_lines(product_lines, i, groups) ==
    IF i > Len(product_lines) THEN groups
    ELSE LET line == product_lines[i]
             at == {g \in 1..Len(groups) : groups[g].product_name = line.product_name}
         IN  IF at = {}
             THEN group_lines(product_lines, i + 1,
                      Append(groups, [product_name |-> line.product_name,
                                      lines |-> <<line>>]))
             ELSE LET g == CHOOSE g \in at : TRUE
                  IN  group_lines(product_lines, i + 1,
                          [groups EXCEPT ![g].lines = Append(@, line)])

\* str() of a float: the integer part, a point, the decimal fraction.
RECURSIVE IntDigits(_)
IntDigits(n) == IF n < 10 THEN <<48 + n>> ELSE Append(IntDigits(n \div 10), 48 + (n % 10))
RECURSIVE FracDigits(_)
FracDigits(r) ==
    IF r = 0 THEN <<>> ELSE <<48 + (r * 10) \div One>> \o FracDigits((r * 10) % One)
FloatStr(x) ==
    IntDigits(x \div One) \o <<46>>
        \o (IF x % One = 0 THEN <<48>> ELSE FracDigits(x % One))

\* market_price = (mat.price_amount / mat.price_quantity if mat.price_quantity else 0.0)
\* (of the material a product line resolves to)
line_market_price(mat) ==
    IF mat.price_quantity # 0 THEN fdiv(mat.price_amount, mat.price_quantity) ELSE 0

\* Mutant: the line cost leaves out the quantity.
line_cost_of_unit(market_price, line) == market_price

\* line_cost = market_price * line.quantity_used
line_cost_of(market_price, line) == fmul(market_price, line.quantity_used)

\* Mutant: a line's material is looked up by its name as written.
line_key_exact(line) == line.material_name

\* line.material_name.lower()
line_key(line) == Lower(line.material_name)

\* Mutant: the row is the group's position alone.
error_row_of_group(row_offset, line_idx) == row_offset

\* row=row_offset + line_idx
error_row(row_offset, line_idx) == row_offset + line_idx

\* "for line_idx, line in enumerate(lines)", from line i on (line_idx = i - 1).
RECURSIVE import_lines(_, _, _, _, _)
import_lines(name_to_material, row_offset, lines, i, st) ==
    IF i > Len(lines) THEN st
    ELSE LET line == lines[i]
             key == line_key(line)
         IN  IF key \notin DOMAIN name_to_material
             THEN import_lines(name_to_material, row_offset, lines, i + 1,
                      [st EXCEPT !.errors = Append(@,
                                     [row |-> error_row(row_offset, i - 1),
                                      field |-> "material_name",
                                      message |-> <<"Material '", line.material_name,
                                                    "' not found">>]),
                                 !.skip = TRUE])
             ELSE LET mat == name_to_material[key]
                      market_price == line_market_price(mat)
                      line_cost == line_cost_of(market_price, line)
                  IN  import_lines(name_to_material, row_offset, lines, i + 1,
                          [st EXCEPT
                              !.total_material_cost = fadd(@, line_cost),
                              !.entries = Append(@,
                                  [material_id |-> mat.id,
                                   quantity_str |-> FloatStr(line.quantity_used)]),
                              !.snapshots = Append(@,
                                  [material_id |-> mat.id,
                                   name |-> mat.name,
                                   unit |-> mat.unit,
                                   price_amount |-> mat.price_amount,
                                   price_quantity |-> mat.price_quantity,
                                   market_price_per_unit |-> market_price,
                                   quantity_used |-> line.quantity_used,
                                   line_cost |-> line_cost])])

\* Mutant: the parameters are taken from the group's last line.
last_line(lines) == lines[Len(lines)]

\* first = lines[0]
first_line(lines) == lines[1]

\* cost_per_unit = total_material_cost / batch_output if batch_output else 0.0
import_cost_per_unit(total_material_cost, batch_output) ==
    IF batch_output # 0 THEN fdiv(total_material_cost, batch_output) ELSE 0

\* Mutant: the packaging cost is left out.
import_final_cost_without_packaging(cost_per_unit, packaging) == cost_per_unit

\* final_cost_per_unit = cost_per_unit + packaging
import_final_cost_per_unit(cost_per_unit, packaging) == fadd(cost_per_unit, packaging)

\* selling_price = final_cost_per_unit * (1 + margin / 100.0)
import_selling_price(final_cost_per_unit, margin) ==
    fmul(final_cost_per_unit, fadd(One, fdiv(margin, Hundred)))

\* The Product(...) built for a group whose lines all resolved; its id and its
\* children's ids are assigned at the commit's flush.
import_product(user, product_name, first, done) ==
    LET batch_output == first.batch_output_quantity
        packaging == first.packaging_cost_per_unit
        margin == first.margin_percentage
        cost_per_unit == import_cost_per_unit(done.total_material_cost, batch_output)
        final_cost_per_unit == import_final_cost_per_unit(cost_per_unit, packaging)
        selling_price == import_selling_price(final_cost_per_unit, margin)
    IN  [row |-> [user_id |-> user,
                  product_name |-> product_name,
                  batch_output_quantity |-> batch_output,
                  packaging_cost_per_unit |-> packaging,
                  margin_percentage |-> margin,
                  total_material_cost |-> done.total_material_cost,
                  cost_per_unit |-> cost_per_unit,
                  final_cost_per_unit |-> final_cost_per_unit,
                  selling_price |-> selling_price],
         entries |-> done.entries,
         snapshots |-> done.snapshots]

\* Mutant: a skipped group ends the loop.
after_skipped_group_break(g, groups) == Len(groups) + 1

\* "if skip: ...; continue": the loop goes on with the next group.
after_skipped_group(g, groups) == g + 1

\* Mutant: a group is skipped only when none of its lines resolved.
group_skipped_if_empty(done) == done.skip /\ done.entries = <<>>

\* Mutant: a group is never skipped.
group_never_skipped(done) == FALSE

\* if skip:
group_skipped(done) == done.skip

\* Phase 2, "for row_offset, (product_name, lines) in enumerate(groups.items())",
\* from group g on (row_offset = g - 1).
RECURSIVE import_groups(_, _, _, _, _)
import_groups(user, name_to_material, groups, g, st) ==
    IF g > Len(groups) THEN st
    ELSE LET lines == groups[g].lines
             done == import_lines(name_to_material, g - 1, lines, 1,
                         [errors |-> st.errors, entries |-> <<>>, snapshots |-> <<>>,
                          total_material_cost |-> 0, skip |-> FALSE])
         IN  IF group_skipped(done)
             THEN import_groups(user, name_to_material, groups,
                      after_skipped_group(g, groups),
                      [st EXCEPT !.errors = done.errors,
                                 !.products_skipped = @ + 1])
             ELSE import_groups(user, name_to_material, groups, g + 1,
                      [st EXCEPT !.errors = done.errors,
                                 !.new_products = Append(@,
                                     import_product(user, groups[g].product_name,
                                                    first_line(lines), done)),
                                 !.products_added = @ + 1])

\* db.commit(): the new products and their children get their ids, in the order of
\* db.add and of the lists.
RECURSIVE commit_products(_, _, _, _, _)
commit_products(new_products, k, entry_id, snapshot_id, acc) ==
    IF k > Len(new_products) THEN acc
    ELSE LET p == new_products[k]
             id == next_id.product + k - 1
         IN  commit_products(new_products, k + 1,
                 entry_id + Len(p.entries), snapshot_id + Len(p.snapshots),
                 [products |-> acc.products \cup {[id |-> id] @@ p.row},
                  entries |-> acc.entries \cup ChildRows(p.entries, id, entry_id),
                  snapshots |-> acc.snapshots
                                   \cup ChildRows(p.snapshots, id, snapshot_id)])

\* The handler's run up to db.commit(): both phases and the rows the commit writes.
bulk_import(user, data, existing_materials) ==
    LET phase1 == import_materials(user, data.materials, 1,
                      [name_to_material |-> existing_name_to_material(existing_materials),
                       materials_added |-> 0,
                       materials_duplicated |-> 0])
        groups == group_lines(data.product_lines, 1, <<>>)
    IN  LET phase2 == import_groups(user, phase1.name_to_material, groups, 1,
                          [errors |-> <<>>,
                           new_products |-> <<>>,
                           products_added |-> 0,
                           products_skipped |-> 0])
        IN  [name_to_material |-> phase1.name_to_material,
             materials_added |-> phase1.materials_added,
             materials_duplicated |-> phase1.materials_duplicated,
             products_added |-> phase2.products_added,
             products_skipped |-> phase2.products_skipped,
             errors |-> phase2.errors,
             committed |-> commit_products(phase2.new_products, 1,
                               next_id.entry, next_id.snapshot,
                               [products |-> {}, entries |-> {}, snapshots |-> {}])]

Range(f) == {f[x] : x \in DOMAIN f}

\* POST /import.  The commit writes the session's objects: the new materials and
\* products, and the materials loaded into name_to_material as the handler left them.
Import(user, data, history) ==
    /\ before' = Tables
    /\ UNCHANGED sessions
    /\ \E flushed_at \in Readings(now) :
       \E created_at \in Readings(flushed_at) :
       \E updated_at \in Readings(created_at) :
         /\ now' = updated_at
         /\ \E existing_materials \in Orders(OwnMaterials(user)) :
            \E run \in {bulk_import(user, data, existing_materials)} :
              /\ materials' =
                     (materials \ Range(existing_name_to_material(existing_materials)))
                     \cup Created(Range(run.name_to_material), flushed_at)
              /\ products' = products
                     \cup Stamped(run.committed.products, created_at, updated_at)
              /\ product_entries' = product_entries \cup run.committed.entries
              /\ material_snapshots' = material_snapshots \cup run.committed.snapshots
              /\ next_id' =
                     [material |-> next_id.material + run.materials_added,
                      product |-> next_id.product + run.products_added,
                      entry |-> next_id.entry + Cardinality(run.committed.entries),
                      snapshot |-> next_id.snapshot
                                      + Cardinality(run.committed.snapshots)]
              /\ call' = [op |-> "bulk_import", user |-> user, data |-> data,
                          status |-> 200,
                          body |-> [materials_added |-> run.materials_added,
                                    materials_duplicated |-> run.materials_duplicated,
                                    products_added |-> run.products_added,
                                    products_skipped |-> run.products_skipped,
                                    errors |-> run.errors]] @@ history

\* A request that comes when the previous one has been answered.
BulkImport(user, data) ==
    /\ call = NoCall
    /\ Import(user, data, [again |-> FALSE])

\* The same request once more: the client sends again, as it is, the import it has
\* just been answered.
BulkImportAgain ==
    /\ call.op = "bulk_import"
    /\ ~call.again
    /\ Import(call.user, call.data, [again |-> TRUE, previous |-> call.body])

\* The response is sent; the next request can be answered.
Return ==
    /\ call # NoCall
    /\ call' = NoCall
    /\ before' = Tables
    /\ UNCHANGED <<store, now, sessions>>

\* ------------------------------------------------------- concurrent imports
\* An import between its query and its commit or rollback.
InFlight(s) == sessions[s].pc \in {"read", "flushed", "added"}

\* Mutant: an import waits until no other import is in flight.
ImportReadLocked(s, user, data) ==
    /\ sessions[s].pc = "idle"
    /\ \A t \in Sessions : ~InFlight(t)
    /\ \E existing_materials \in Orders(OwnMaterials(user)) :
           sessions' = [sessions EXCEPT ![s] =
               [pc |-> "read", user |-> user, data |-> data,
                existing_materials |-> existing_materials,
                started_after |-> {t \in Sessions : sessions[t].pc = "done"}]]
    /\ before' = Tables
    /\ call' = [op |-> "import_read", session |-> s]
    /\ UNCHANGED <<store, now>>

\* existing_materials = db.query(Material).filter(...).all(): the request's first
\* statement reads the committed materials of the caller.
ImportRead(s, user, data) ==
    /\ sessions[s].pc = "idle"
    /\ \E existing_materials \in Orders(OwnMaterials(user)) :
           sessions' = [sessions EXCEPT ![s] =
               [pc |-> "read", user |-> user, data |-> data,
                existing_materials |-> existing_materials,
                started_after |-> {t \in Sessions : sessions[t].pc = "done"}]]
    /\ before' = Tables
    /\ call' = [op |-> "import_read", session |-> s]
    /\ UNCHANGED <<store, now>>

\* The materials a session added and flushed.
FlushedMaterials(s) ==
    Created(Range(sessions[s].name_to_material)
                \ Range(existing_name_to_material(sessions[s].existing_materials)),
            sessions[s].flushed_at)

\* Mutant: the flush commits the new materials.
ImportFlushCommitting(s) ==
    /\ sessions[s].pc = "read"
    /\ \E flushed_at \in Readings(now) :
       \E phase1 \in {import_materials(sessions[s].user, sessions[s].data.materials, 1,
                          [name_to_material |->
                               existing_name_to_material(sessions[s].existing_materials),
                           materials_added |-> 0,
                           materials_duplicated |-> 0])} :
         /\ now' = flushed_at
         /\ sessions' = [sessions EXCEPT ![s] =
                [pc |-> "flushed", flushed_at |-> flushed_at] @@ phase1 @@ @]
         /\ materials' = materials \cup FlushedMaterials(s)'
         /\ next_id' = [next_id EXCEPT !.material = @ + phase1.materials_added]
    /\ before' = Tables
    /\ call' = [op |-> "import_flush", session |-> s]
    /\ UNCHANGED <<products, product_entries, material_snapshots>>

\* The material loop and db.flush(): the new materials are inserted, and get their
\* ids, inside the request's transaction; no other request sees them.
ImportFlush(s) ==
    /\ sessions[s].pc = "read"
    /\ \E flushed_at \in Readings(now) :
       \E phase1 \in {import_materials(sessions[s].user, sessions[s].data.materials, 1,
                          [name_to_material |->
                               existing_name_to_material(sessions[s].existing_materials),
                           materials_added |-> 0,
                           materials_duplicated |-> 0])} :
         /\ now' = flushed_at
         /\ sessions' = [sessions EXCEPT ![s] =
                [pc |-> "flushed", flushed_at |-> flushed_at] @@ phase1 @@ @]
         /\ next_id' = [next_id EXCEPT !.material = @ + phase1.materials_added]
    /\ before' = Tables
    /\ call' = [op |-> "import_flush", session |-> s]
    /\ UNCHANGED <<materials, products, product_entries, material_snapshots>>

\* The product loop: the products, entries and snapshots are built and added to the
\* session; nothing is sent to the database.
ImportProducts(s) ==
    /\ sessions[s].pc = "flushed"
    /\ \E phase2 \in {import_groups(sessions[s].user, sessions[s].name_to_material,
                          group_lines(sessions[s].data.product_lines, 1, <<>>), 1,
                          [errors |-> <<>>,
                           new_products |-> <<>>,
                           products_added |-> 0,
                           products_skipped |-> 0])} :
         sessions' = [sessions EXCEPT ![s] = [pc |-> "added"] @@ phase2 @@ @]
    /\ before' = Tables
    /\ call' = [op |-> "import_products", session |-> s]
    /\ UNCHANGED <<store, now>>

\* db.commit(): the products are inserted and the transaction's rows become the
\* store's.
ImportCommit(s) ==
    /\ sessions[s].pc = "added"
    /\ \E created_at \in Readings(now) :
       \E updated_at \in Readings(created_at) :
       \E committed \in {commit_products(sessions[s].new_products, 1,
                             next_id.entry, next_id.snapshot,
                             [products |-> {}, entries |-> {}, snapshots |-> {}])} :
       \E body \in {[materials_added |-> sessions[s].materials_added,
                     materials_duplicated |-> sessions[s].materials_duplicated,
                     products_added |-> sessions[s].products_added,
                     products_skipped |-> sessions[s].products_skipped,
                     errors |-> sessions[s].errors]} :
         /\ now' = updated_at
         /\ materials' = materials \cup FlushedMaterials(s)
         /\ products' = products \cup Stamped(committed.products, created_at, updated_at)
         /\ product_entries' = product_entries \cup committed.entries
         /\ material_snapshots' = material_snapshots \cup committed.snapshots
         /\ next_id' = [next_id EXCEPT
                           !.product = @ + sessions[s].products_added,
                           !.entry = @ + Cardinality(committed.entries),
                           !.snapshot = @ + Cardinality(committed.snapshots)]
         /\ call' = [op |-> "bulk_import", session |-> s,
                     user |-> sessions[s].user, data |-> sessions[s].data,
                     status |-> 200, body |-> body]
         /\ sessions' = [sessions EXCEPT ![s] =
                [pc |-> "done", body |-> body,
                 added_products |-> {p.id : p \in committed.products}] @@ @]
    /\ before' = Tables

\* The request fails before db.commit(): its unit of work is rolled back.  The ids the
\* flush took from the counter are not given back.
ImportAbort(s) ==
    /\ InFlight(s)
    /\ sessions' = [sessions EXCEPT ![s] = [pc |-> "aborted"] @@ @]
    /\ before' = Tables
    /\ call' = [op |-> "import_abort", session |-> s]
    /\ UNCHANGED <<store, now>>

\* ------------------------------------------------------------------ inputs
Flour == <<70, 108>>        \* "Fl"
flour == <<102, 108>>       \* "fl"
FLOUR == <<70, 76>>         \* "FL"
Butter == <<66>>            \* "B"
Kg == <<107, 103>>          \* "kg"
Gram == <<103>>             \* "g"
Cake == <<67>>              \* "C"
Bread == <<68>>             \* "D"
cake == <<99>>              \* "c"

SeqsUpTo(S, n) == UNION {[1..k -> S] : k \in 0..n}

MaterialInputs ==
    {[name |-> Flour, unit |-> Kg, price_amount |-> F(16), price_quantity |-> F(2)],
     [name |-> Butter, unit |-> Kg, price_amount |-> F(1), price_quantity |-> 0]}

MaterialUpdates ==
    {[price_amount |-> F(1)],
     [price_quantity |-> F(2)],
     [name |-> flour, unit |-> Gram, price_quantity |-> 0]}

ProductInputs ==
    {[product_name |-> Cake,
      entries |-> <<[material_id |-> 1, quantity_str |-> <<52>>]>>,
      batch_output_quantity |-> F(2),
      packaging_cost_per_unit |-> F(1),
      margin_percentage |-> F(50),
      result |-> [total_material_cost |-> F(32), cost_per_unit |-> F(16),
                  final_cost_per_unit |-> F(17), selling_price |-> F(26)],
      material_snapshots |-> <<[material_id |-> 1, name |-> Flour, unit |-> Kg,
                                price_amount |-> F(16), price_quantity |-> F(2),
                                market_price_per_unit |-> F(8),
                                quantity_used |-> F(4), line_cost |-> F(32)]>>],
     [product_name |-> Bread,
      entries |-> <<[material_id |-> None, quantity_str |-> <<49>>],
                    [material_id |-> 2, quantity_str |-> <<48, 46, 53>>]>>,
      batch_output_quantity |-> 0,
      packaging_cost_per_unit |-> 0,
      margin_percentage |-> 0,
      result |-> [total_material_cost |-> F(1), cost_per_unit |-> 0,
                  final_cost_per_unit |-> 0, selling_price |-> 0],
      material_snapshots |-> <<[material_id |-> 2, name |-> Butter, unit |-> Kg,
                                price_amount |-> F(1), price_quantity |-> F(2),
                                market_price_per_unit |-> Half,
                                quantity_used |-> Half, line_cost |-> F(1)]>>]}

\* Product-level parameters and the quantity of a product line.
ParamsA ==
    [batch_output_quantity |-> F(2), packaging_cost_per_unit |-> F(1),
     margin_percentage |-> F(50), quantity_used |-> F(1)]
ParamsB ==
    [batch_output_quantity |-> 0, packaging_cost_per_unit |-> Half,
     margin_percentage |-> F(100), quantity_used |-> F(2)]

\* The requests of the life-cycle specification.
ImportRows ==
    {[name |-> FLOUR, unit |-> Kg, price_amount |-> F(1), price_quantity |-> F(2)],
     [name |-> Butter, unit |-> Kg, price_amount |-> F(16), price_quantity |-> 0]}

ImportLines ==
    {[product_name |-> Cake, material_name |-> flour] @@ ParamsA,
     [product_name |-> Cake, material_name |-> Butter] @@ ParamsB}

ImportRequests ==
    {[materials |-> rows, product_lines |-> lines] :
        rows \in SeqsUpTo(ImportRows, MaxRows), lines \in SeqsUpTo(ImportLines, MaxLines)}

\* The requests of the import specification.
LargeImportRows ==
    {[name |-> FLOUR, unit |-> Kg, price_amount |-> F(16), price_quantity |-> F(1)],
     [name |-> flour, unit |-> Gram, price_amount |-> F(3), price_quantity |-> F(2)],
     [name |-> Butter, unit |-> Kg, price_amount |-> F(1), price_quantity |-> F(2)]}

LargeImportLines ==
    {[product_name |-> n, material_name |-> m] @@ p :
        n \in {Cake, Bread}, m \in {flour, Butter}, p \in {ParamsA, ParamsB}}

LargeImportRequests ==
    {[materials |-> rows, product_lines |-> lines] :
        rows \in SeqsUpTo(LargeImportRows, MaxImportRows),
        lines \in SeqsUpTo(LargeImportLines, MaxImportLines)}

\* The requests of the specification of all the handlers.
CrudMaterialInputs ==
    {[name |-> Flour, unit |-> Kg, price_amount |-> F(16), price_quantity |-> F(2)]}

CrudMaterialUpdates == {[price_amount |-> F(1)]}

ProductUpdates ==
    {<<>>,
     [product_name |-> Bread],
     [margin_percentage |-> F(100)],
     [batch_output_quantity |-> F(4), packaging_cost_per_unit |-> 0],
     [entries |-> <<[material_id |-> 2, quantity_str |-> <<51>>]>>],
     [material_snapshots |-> <<>>],
     [result |-> [total_material_cost |-> F(1), cost_per_unit |-> F(1),
                  final_cost_per_unit |-> F(1), selling_price |-> F(2)],
      entries |-> <<>>,
      material_snapshots |-> <<[material_id |-> 1, name |-> flour, unit |-> Gram,
                                price_amount |-> F(1), price_quantity |-> F(1),
                                market_price_per_unit |-> F(1),
                                quantity_used |-> F(1), line_cost |-> F(1)]>>]}

Searches == {<<>>, <<102>>}    \* absent, "f"

IdSets == {{}, {1}, {2}, {1, MaxCrudMaterials + 1}}

CrudImportRequests ==
    {[materials |-> rows,
      product_lines |-> <<[product_name |-> Cake, material_name |-> flour] @@ ParamsA>>] :
        rows \in {<<>>, <<[name |-> FLOUR, unit |-> Kg, price_amount |-> F(1),
                           price_quantity |-> F(2)]>>}}

ConcurrentImportRequests ==
    {[materials |-> rows, product_lines |-> lines] :
        rows \in {<<[name |-> Flour, unit |-> Kg, price_amount |-> F(16),
                     price_quantity |-> F(2)]>>,
                  <<[name |-> FLOUR, unit |-> Kg, price_amount |-> F(1),
                     price_quantity |-> F(2)],
                    [name |-> Butter, unit |-> Kg, price_amount |-> F(1),
                     price_quantity |-> F(2)]>>},
        lines \in {<<>>, <<[product_name |-> Cake, material_name |-> flour] @@ ParamsA>>}}

\* The requests of the letter-case specification: product and material names that
\* differ in letter case only.
CaseImportLines ==
    {[product_name |-> n, material_name |-> m] @@ ParamsA :
        n \in {Cake, cake}, m \in {flour, FLOUR, Butter}}

CaseImportRequests ==
    {[materials |-> rows, product_lines |-> lines] :
        rows \in SeqsUpTo({[name |-> Flour, unit |-> Kg, price_amount |-> F(16),
                            price_quantity |-> F(2)]}, MaxRows),
        lines \in SeqsUpTo(CaseImportLines, MaxCaseLines)}

\* The requests that are sent twice.
RerunImportRequests ==
    {[materials |-> rows, product_lines |-> lines] :
        rows \in SeqsUpTo(ImportRows, MaxImportRows),
        lines \in SeqsUpTo(ImportLines \cup
                              {[product_name |-> Bread, material_name |-> FLOUR]
                                   @@ ParamsB},
                          MaxRerunLines)}

\* ---------------------------------------------------------- specifications
\* A request is answered when the previous one has been answered; which request
\* arrives is the client's choice.
Idle == call = NoCall

\* The requests arrive within one reading of the clock.
SameInstant == now' = now

\* The clients stop creating once the keys reach the bounds.
KeysWithin(max_materials, max_products) ==
    /\ next_id.material <= max_materials + 1
    /\ next_id.product <= max_products + 1

Next ==
    \/ /\ Idle
       /\ SameInstant
       /\ \E user \in Users, data \in MaterialInputs : CreateMaterial(user, data)
       /\ KeysWithin(MaxMaterials, MaxProducts)'
    \/ /\ Idle
       /\ SameInstant
       /\ \E user \in Users, id \in 1..MaxMaterials, data \in MaterialUpdates :
              UpdateMaterial(user, id, data)
    \/ /\ Idle
       /\ SameInstant
       /\ \E user \in Users, data \in ProductInputs : CreateProduct(user, data)
       /\ KeysWithin(MaxMaterials, MaxProducts)'
    \/ /\ Idle
       /\ SameInstant
       /\ \E user \in Users, data \in ImportRequests : BulkImport(user, data)
       /\ KeysWithin(MaxMaterials, MaxProducts)'
    \/ Return

Spec == Init /\ [][Next]_vars

\* One owner's first import into an account without products, of a larger batch,
\* over the materials the owner created.
NextImport ==
    \/ /\ Idle
       /\ SameInstant
       /\ \E data \in MaterialInputs : CreateMaterial(1, data)
       /\ KeysWithin(MaxImportMaterials, MaxImportProducts)'
    \/ /\ Idle
       /\ SameInstant
       /\ products = {}
       /\ \E data \in LargeImportRequests : BulkImport(1, data)
       /\ KeysWithin(MaxImportMaterials, MaxImportProducts)'
    \/ Return

SpecImport == Init /\ [][NextImport]_vars

\* One owner's imports of names that differ in letter case, over the materials the
\* owner created and imported.
NextCase ==
    \/ /\ Idle
       /\ SameInstant
       /\ \E data \in CrudMaterialInputs : CreateMaterial(1, data)
       /\ KeysWithin(MaxMaterials, MaxImportProducts)'
    \/ /\ Idle
       /\ SameInstant
       /\ \E data \in CaseImportRequests : BulkImport(1, data)
       /\ KeysWithin(MaxMaterials, MaxImportProducts)'
    \/ Return

SpecCase == Init /\ [][NextCase]_vars

\* One owner's imports, each of them sent once or twice in a row, over the materials
\* the owner created.
NextRerun ==
    \/ /\ Idle
       /\ SameInstant
       /\ \E data \in MaterialInputs : CreateMaterial(1, data)
       /\ KeysWithin(MaxImportMaterials, MaxImportProducts)'
    \/ /\ Idle
       /\ SameInstant
       /\ \E data \in RerunImportRequests : BulkImport(1, data)
       /\ KeysWithin(MaxImportMaterials, MaxImportProducts)'
    \/ /\ SameInstant
       /\ BulkImportAgain
       /\ KeysWithin(MaxImportMaterials, MaxImportProducts + MaxRerunLines)'
    \/ Return

SpecRerun == Init /\ [][NextRerun]_vars

\* The clients stop creating once the keys reach the bounds.
CrudWithin ==
    /\ next_id.material <= MaxCrudMaterials + 1
    /\ next_id.product <= MaxCrudProducts + 1
    /\ next_id.entry <= MaxCrudChildren + 1
    /\ next_id.snapshot <= MaxCrudChildren + 1

\* Two users' requests to every handler, one after the other.
NextCrud ==
    \/ /\ Idle
       /\ SameInstant
       /\ \E user \in Users, data \in CrudMaterialInputs : CreateMaterial(user, data)
       /\ CrudWithin'
    \/ /\ Idle
       /\ \E user \in Users, search \in Searches : ListMaterials(user, search)
    \/ /\ Idle
       /\ \E user \in Users, id \in 1..MaxCrudMaterials, data \in CrudMaterialUpdates :
              UpdateMaterial(user, id, data)
    \/ /\ Idle
       /\ \E user \in Users, id \in 1..(MaxCrudMaterials + 1) : DeleteMaterial(user, id)
    \/ /\ Idle
       /\ \E user \in Users, ids \in IdSets : DeleteMaterials(user, ids)
    \/ /\ Idle
       /\ SameInstant
       /\ \E user \in Users, data \in ProductInputs : CreateProduct(user, data)
       /\ CrudWithin'
    \/ /\ Idle
       /\ \E user \in Users, search \in Searches : ListProducts(user, search)
    \/ /\ Idle
       /\ \E user \in Users, id \in 1..(MaxCrudProducts + 1) : GetProduct(user, id)
    \/ /\ Idle
       /\ SameInstant
       /\ \E user \in Users, id \in 1..(MaxCrudProducts + 1), data \in ProductUpdates :
              UpdateProduct(user, id, data)
       /\ CrudWithin'
    \/ /\ Idle
       /\ \E user \in Users, id \in 1..(MaxCrudProducts + 1) : DeleteProduct(user, id)
    \/ /\ Idle
       /\ \E user \in Users, ids \in IdSets : DeleteProducts(user, ids)
    \/ /\ Idle
       /\ SameInstant
       /\ \E user \in Users, data \in CrudImportRequests : BulkImport(user, data)
       /\ CrudWithin'
    \/ Return

SpecCrud == Init /\ [][NextCrud]_vars

\* The clock stays within its bound.
ClockWithin == now <= MaxClock

\* One user's products over time: every reading of the clock is the previous one or
\* a later one.
NextClock ==
    \/ /\ Idle
       /\ \E data \in CrudMaterialInputs : CreateMaterial(1, data)
       /\ ClockWithin'
       /\ CrudWithin'
    \/ /\ Idle
       /\ \E data \in ProductInputs : CreateProduct(1, data)
       /\ ClockWithin'
       /\ CrudWithin'
    \/ /\ Idle
       /\ \E id \in 1..(MaxCrudProducts + 1), data \in ProductUpdates :
              UpdateProduct(1, id, data)
       /\ ClockWithin'
       /\ CrudWithin'
    \/ /\ Idle
       /\ \E id \in 1..(MaxCrudProducts + 1) : DeleteProduct(1, id)
    \/ /\ Idle
       /\ \E data \in CrudImportRequests : BulkImport(1, data)
       /\ ClockWithin'
       /\ CrudWithin'
    \/ Return

SpecClock == Init /\ [][NextClock]_vars

\* Two requests to POST /import at once, each in its own database session: the steps
\* of the two interleave freely.
NextConcurrent ==
    \/ /\ SameInstant
       /\ \E s \in Sessions, user \in Users, data \in ConcurrentImportRequests :
              ImportRead(s, user, data)
    \/ /\ SameInstant
       /\ \E s \in Sessions : ImportFlush(s)
    \/ /\ SameInstant
       /\ \E s \in Sessions : ImportProducts(s)
    \/ /\ SameInstant
       /\ \E s \in Sessions : ImportCommit(s)
    \/ /\ SameInstant
       /\ \E s \in Sessions : ImportAbort(s)

SpecConcurrent == Init /\ [][NextConcurrent]_vars

\* ------------------------------------------------------------------ claims
\* C1: every stored material has market_price_per_unit = price_amount /
\* price_quantity when price_quantity is not zero, and 0 when it is zero, after any
\* sequence of material creates, material updates and imports.
C1_MarketPriceDerived ==
    \A m \in materials :
        m.market_price_per_unit =
            IF m.price_quantity = 0 THEN 0 ELSE fdiv(m.price_amount, m.price_quantity)

\* An update that supplied price_amount alone has changed the derived price.
C1_Witness ==
    /\ call.op = "update_material"
    /\ call.status = 200
    /\ DOMAIN call.data = {"price_amount"}
    /\ \E old \in before.materials :
           /\ old.id = call.material_id
           /\ old.market_price_per_unit # call.body.market_price_per_unit
           /\ call.body.price_quantity # 0

\* C2: a material update leaves every product row, entry and snapshot as it was;
\* so any sequence of material updates leaves a saved product's snapshots and
\* result fields unchanged.
C2_SnapshotsFrozen ==
    call.op = "update_material" =>
        /\ products = before.products
        /\ product_entries = before.product_entries
        /\ material_snapshots = before.material_snapshots

\* The owner has changed the price or the name of a material of which one of the
\* owner's products holds a snapshot, and the snapshot still shows the old facts.
C2_Witness ==
    /\ call.op = "update_material"
    /\ call.status = 200
    /\ \E s \in material_snapshots, p \in products, old \in before.materials :
           /\ s.product_id = p.id
           /\ p.user_id = call.user
           /\ s.material_id = call.material_id
           /\ old.id = call.material_id
           /\ s.name = old.name
           /\ s.price_amount = old.price_amount
           /\ s.price_quantity = old.price_quantity
           /\ \/ call.body.name # old.name
              \/ call.body.price_amount # old.price_amount
              \/ call.body.price_quantity # old.price_quantity

\* What an answered import request was given and found.
Imported == call.op = "bulk_import"
Rows == call.data.materials
Lines == call.data.product_lines
PriorMaterials == {m \in before.materials : m.user_id = call.user}
PriorKeys == {Lower(m.name) : m \in PriorMaterials}
RowKey(i) == Lower(Rows[i].name)
NewMaterials == materials \ before.materials
NewProducts == products \ before.products
NewEntries == product_entries \ before.product_entries
NewSnapshots == material_snapshots \ before.material_snapshots

\* Row i names, in any letter case, a material the owner had or an earlier row.
DuplicateRow(i) ==
    \/ RowKey(i) \in PriorKeys
    \/ \E j \in 1..(i - 1) : RowKey(j) = RowKey(i)

\* C3: an import row is counted as duplicated and not added exactly when its
\* lower-cased name is that of a material the owner had or of an earlier row of the
\* batch; otherwise it is added as it is; materials_added is the number of distinct
\* lower-cased names of the batch that the owner did not have.
C3_DuplicateDetection ==
    Imported =>
        /\ call.body.materials_duplicated =
               Cardinality({i \in 1..Len(Rows) : DuplicateRow(i)})
        /\ call.body.materials_added =
               Cardinality({RowKey(i) : i \in 1..Len(Rows)} \ PriorKeys)
        /\ Cardinality(NewMaterials) = call.body.materials_added
        /\ \A i \in 1..Len(Rows) :
               ~DuplicateRow(i) =>
                   \E m \in NewMaterials :
                       /\ m.user_id = call.user
                       /\ m.name = Rows[i].name
                       /\ m.unit = Rows[i].unit
                       /\ m.price_amount = Rows[i].price_amount
                       /\ m.price_quantity = Rows[i].price_quantity

\* The owner had "Fl"; the batch held "FL" and "fl": both were duplicates.
C3_Witness ==
    /\ Imported
    /\ Len(Rows) = 2
    /\ Rows[1].name # Rows[2].name
    /\ \E m \in PriorMaterials :
           /\ m.name # Rows[1].name
           /\ m.name # Rows[2].name
           /\ Lower(m.name) = RowKey(1)
           /\ Lower(m.name) = RowKey(2)
    /\ call.body.materials_duplicated = 2
    /\ call.body.materials_added = 0

\* C4: a row that duplicates a material the owner already had leaves that material
\* as it was, in every field.
C4_DuplicateLeavesMaterial ==
    Imported =>
        \A i \in 1..Len(Rows) : \A m \in PriorMaterials :
            Lower(m.name) = RowKey(i) => m \in materials

\* The duplicate row carried another price than the material it duplicates.
C4_Witness ==
    /\ Imported
    /\ \E i \in 1..Len(Rows), m \in PriorMaterials :
           /\ Lower(m.name) = RowKey(i)
           /\ Rows[i].price_amount # m.price_amount
           /\ Rows[i].price_quantity # m.price_quantity
           /\ m \in materials

\* The product lines of an answered import: which resolve, and how they group.
KnownKeys == PriorKeys \cup {RowKey(i) : i \in 1..Len(Rows)}
Unresolved(i) == Lower(Lines[i].material_name) \notin KnownKeys
ProductNames == {Lines[i].product_name : i \in 1..Len(Lines)}
LinesOf(n) == SelectSeq(Lines, LAMBDA line : line.product_name = n)
SkippedName(n) == \E i \in 1..Len(Lines) : Lines[i].product_name = n /\ Unresolved(i)
FirstIndex(n) ==
    CHOOSE i \in 1..Len(Lines) :
        /\ Lines[i].product_name = n
        /\ \A j \in 1..(i - 1) : Lines[j].product_name # n
\* Zero-based: the group's place among the groups, the line's place in its group.
GroupPosition(n) == Cardinality({m \in ProductNames : FirstIndex(m) < FirstIndex(n)})
LineOffset(i) ==
    Cardinality({j \in 1..(i - 1) : Lines[j].product_name = Lines[i].product_name})
ProductsNamed(n) == {p \in NewProducts : p.product_name = n /\ p.user_id = call.user}
SnapshotsOf(p) == SortById({x \in NewSnapshots : x.product_id = p.id})
EntriesOf(p) == SortById({x \in NewEntries : x.product_id = p.id})

\* C5: for every group with a line whose material name does not resolve, no product,
\* entry or snapshot is written, products_skipped counts the group once and
\* products_added does not count it.
C5_SkippedGroupWritesNothing ==
    Imported =>
        /\ call.body.products_skipped =
               Cardinality({n \in ProductNames : SkippedName(n)})
        /\ call.body.products_added =
               Cardinality(ProductNames) - Cardinality({n \in ProductNames : SkippedName(n)})
        /\ \A p \in NewProducts : ~SkippedName(p.product_name)
        /\ \A x \in NewEntries \cup NewSnapshots :
               \E p \in NewProducts : x.product_id = p.id

\* A group with one line that resolved and one that did not was skipped, and the
\* import wrote no product, entry or snapshot.
C5_Witness ==
    /\ Imported
    /\ \E i, j \in 1..Len(Lines) :
           /\ Lines[i].product_name = Lines[j].product_name
           /\ ~Unresolved(i)
           /\ Unresolved(j)
    /\ call.body.products_skipped = 1
    /\ NewProducts = {}
    /\ NewEntries = {}
    /\ NewSnapshots = {}

\* The unresolved lines, group by group and in input order inside a group.
UnresolvedLines == {i \in 1..Len(Lines) : Unresolved(i)}
ReportedBefore(j, i) ==
    \/ GroupPosition(Lines[j].product_name) < GroupPosition(Lines[i].product_name)
    \/ Lines[j].product_name = Lines[i].product_name /\ j < i
ErrorIndex(i) == 1 + Cardinality({j \in UnresolvedLines : ReportedBefore(j, i)})

\* C6: the error list holds exactly one error per unresolved product line, each with
\* field "material_name" and row = the zero-based position of the line's group among
\* the groups + the line's zero-based offset in its group.
C6_OneErrorPerUnresolvedLine ==
    Imported =>
        /\ Len(call.body.errors) = Cardinality(UnresolvedLines)
        /\ \A i \in UnresolvedLines :
               call.body.errors[ErrorIndex(i)] =
                   [row |-> GroupPosition(Lines[i].product_name) + LineOffset(i),
                    field |-> "material_name",
                    message |-> <<"Material '", Lines[i].material_name, "' not found">>]

\* Both lines of the second group were unresolved and both were reported, as rows
\* 1 and 2.
C6_Witness ==
    /\ Imported
    /\ Len(Lines) = 3
    /\ Lines[2].product_name = Lines[3].product_name
    /\ Lines[1].product_name # Lines[2].product_name
    /\ UnresolvedLines = {2, 3}
    /\ Len(call.body.errors) = 2
    /\ call.body.errors[1].row = 1
    /\ call.body.errors[2].row = 2

\* C7: an import is answered with a result, and every group whose lines all resolve
\* yields its product and is counted in products_added, whatever groups were skipped
\* before or after it.
C7_ResolvedGroupsCreated ==
    Imported =>
        /\ call.status = 200
        /\ \A n \in ProductNames : ~SkippedName(n) => Cardinality(ProductsNamed(n)) = 1
        /\ call.body.products_added = Cardinality(NewProducts)
        /\ Cardinality(NewProducts) =
               Cardinality({n \in ProductNames : ~SkippedName(n)})

\* The first group was skipped and the group after it was created.
C7_Witness ==
    /\ Imported
    /\ Len(Lines) >= 2
    /\ Unresolved(1)
    /\ \E n \in ProductNames :
           /\ GroupPosition(n) = 1
           /\ ~SkippedName(n)
           /\ ProductsNamed(n) # {}
    /\ call.body.products_skipped = 1
    /\ Len(call.body.errors) >= 1

\* C8: product lines are grouped by product name wherever they stand in the input:
\* a name yields at most one product, the products follow the order in which the names
\* first appear, and a product's lines keep their input order.
C8_GroupedByProductName ==
    Imported =>
        /\ \A n \in ProductNames : Cardinality(ProductsNamed(n)) <= 1
        /\ \A p \in NewProducts : p.product_name \in ProductNames
        /\ \A p, q \in NewProducts :
               FirstIndex(p.product_name) < FirstIndex(q.product_name) => p.id < q.id
        /\ \A p \in NewProducts :
               LET lines == LinesOf(p.product_name)
                   snapshots == SnapshotsOf(p)
                   entries == EntriesOf(p)
               IN  /\ Len(snapshots) = Len(lines)
                   /\ Len(entries) = Len(lines)
                   /\ \A k \in 1..Len(lines) :
                          /\ snapshots[k].quantity_used = lines[k].quantity_used
                          /\ Lower(snapshots[k].name) = Lower(lines[k].material_name)
                          /\ entries[k].material_id = snapshots[k].material_id

\* Two different lines of one product stood on either side of another product's line,
\* and both products were created.
C8_Witness ==
    /\ Imported
    /\ Len(Lines) = 3
    /\ Lines[1].product_name = Lines[3].product_name
    /\ Lines[1].product_name # Lines[2].product_name
    /\ Lines[1].material_name # Lines[3].material_name
    /\ Lines[1].quantity_used # Lines[3].quantity_used
    /\ Cardinality(NewProducts) = 2
    /\ \E p \in NewProducts : Len(SnapshotsOf(p)) = 2

\* The material a snapshot of an imported product was resolved to.
ResolvedMaterial(snapshot) == CHOOSE m \in materials : m.id = snapshot.material_id
UnitPrice(m) == IF m.price_quantity # 0 THEN fdiv(m.price_amount, m.price_quantity) ELSE 0
\* The cost of the k-th line of new product p.
LineCost(p, k) ==
    fmul(UnitPrice(ResolvedMaterial(SnapshotsOf(p)[k])),
         LinesOf(p.product_name)[k].quantity_used)
LineCosts(p) == [k \in 1..Len(SnapshotsOf(p)) |-> LineCost(p, k)]
\* A floating-point sum, taken from left to right.
RECURSIVE SumLeftToRight(_)
SumLeftToRight(costs) ==
    IF costs = <<>> THEN 0
    ELSE fadd(SumLeftToRight(SubSeq(costs, 1, Len(costs) - 1)), costs[Len(costs)])
Reorderings(n) == {f \in [1..n -> 1..n] : \A i, j \in 1..n : f[i] = f[j] => i = j}
\* cost_per_unit, final_cost_per_unit and selling_price follow from the total and the
\* product's stored parameters.
CostingFormulas(p) ==
    /\ p.cost_per_unit =
           IF p.batch_output_quantity # 0
           THEN fdiv(p.total_material_cost, p.batch_output_quantity) ELSE 0
    /\ p.final_cost_per_unit = fadd(p.cost_per_unit, p.packaging_cost_per_unit)
    /\ p.selling_price =
           fmul(p.final_cost_per_unit, fadd(One, fdiv(p.margin_percentage, Hundred)))
ResolvedLines(p) ==
    /\ Len(SnapshotsOf(p)) = Len(LinesOf(p.product_name))
    /\ \A k \in 1..Len(SnapshotsOf(p)) :
           /\ \E m \in materials : m.id = SnapshotsOf(p)[k].material_id
           /\ Lower(ResolvedMaterial(SnapshotsOf(p)[k]).name) =
                  Lower(LinesOf(p.product_name)[k].material_name)
           /\ ResolvedMaterial(SnapshotsOf(p)[k]).user_id = call.user

\* C9 as stated: an imported product's total_material_cost is the sum of its lines'
\* costs in whatever order the lines are added up, and the other three costs follow
\* from it.
C9_CostingAnyOrder ==
    Imported =>
        \A p \in NewProducts :
            /\ ResolvedLines(p)
            /\ \A f \in Reorderings(Len(SnapshotsOf(p))) :
                   p.total_material_cost =
                       SumLeftToRight([k \in 1..Len(SnapshotsOf(p)) |-> LineCosts(p)[f[k]]])
            /\ CostingFormulas(p)

\* C9: an imported product's total_material_cost is the floating-point sum, taken in
\* input order, of unit price x quantity_used over its lines, where the unit price is
\* price_amount / price_quantity of the resolved material (0 if price_quantity is 0);
\* cost_per_unit = total / batch_output_quantity (0 if that is 0), final_cost_per_unit
\* = cost_per_unit + packaging_cost_per_unit, and selling_price = final_cost_per_unit
\* x (1 + margin_percentage / 100).
C9_CostingInLineOrder ==
    Imported =>
        \A p \in NewProducts :
            /\ ResolvedLines(p)
            /\ p.total_material_cost = SumLeftToRight(LineCosts(p))
            /\ CostingFormulas(p)

\* A product of three lines was imported whose costs add up differently in another
\* order, with a batch size, a packaging cost and a margin that all count.
C9_Witness ==
    /\ Imported
    /\ \E p \in NewProducts :
           /\ Len(SnapshotsOf(p)) = 3
           /\ \E f \in Reorderings(3) :
                  SumLeftToRight([k \in 1..3 |-> LineCosts(p)[f[k]]])
                      # p.total_material_cost
           /\ p.batch_output_quantity # 0
           /\ p.packaging_cost_per_unit # 0
           /\ p.cost_per_unit # 0
           /\ p.selling_price # p.final_cost_per_unit

\* C10: an imported product's batch_output_quantity, packaging_cost_per_unit and
\* margin_percentage are those of the first line of its group, in the product and in
\* its costing alike, whatever the group's later lines say.
C10_ParametersOfFirstLine ==
    Imported =>
        \A p \in NewProducts :
            LET first == Lines[FirstIndex(p.product_name)]
            IN  /\ p.batch_output_quantity = first.batch_output_quantity
                /\ p.packaging_cost_per_unit = first.packaging_cost_per_unit
                /\ p.margin_percentage = first.margin_percentage
                /\ p.cost_per_unit =
                       IF first.batch_output_quantity # 0
                       THEN fdiv(p.total_material_cost, first.batch_output_quantity)
                       ELSE 0
                /\ p.final_cost_per_unit =
                       fadd(p.cost_per_unit, first.packaging_cost_per_unit)
                /\ p.selling_price =
                       fmul(p.final_cost_per_unit,
                            fadd(One, fdiv(first.margin_percentage, Hundred)))

\* A created product's group had a later line whose three parameters all differ from
\* the first line's.
C10_Witness ==
    /\ Imported
    /\ \E p \in NewProducts :
       \E i \in 1..Len(Lines) :
           LET first == Lines[FirstIndex(p.product_name)]
           IN  /\ Lines[i].product_name = p.product_name
               /\ i > FirstIndex(p.product_name)
               /\ Lines[i].batch_output_quantity # first.batch_output_quantity
               /\ Lines[i].packaging_cost_per_unit # first.packaging_cost_per_unit
               /\ Lines[i].margin_percentage # first.margin_percentage
               /\ p.total_material_cost # 0

\* The material kept in the map under a key: one the owner had (when several of the
\* owner's materials share the key, any of them), else the first batch row with it.
FirstRow(key) ==
    CHOOSE i \in 1..Len(Rows) : RowKey(i) = key /\ \A j \in 1..(i - 1) : RowKey(j) # key
KeptMaterials(key) ==
    IF key \in PriorKeys
    THEN {m \in PriorMaterials : Lower(m.name) = key}
    ELSE {m \in NewMaterials :
             /\ m.name = Rows[FirstRow(key)].name
             /\ m.unit = Rows[FirstRow(key)].unit
             /\ m.price_amount = Rows[FirstRow(key)].price_amount
             /\ m.price_quantity = Rows[FirstRow(key)].price_quantity}

\* C11: within one import a product line resolves, whatever the case of its material
\* name, when the owner already had a material of that name or an earlier row of the
\* request brought one; the line is costed at the price of the material kept under the
\* name (the owner's own when the row was skipped as a duplicate), and its entry and
\* snapshot carry the id of that material.
C11_LinesResolveAgainstMap ==
    Imported =>
        /\ \A i \in 1..Len(call.body.errors) :
               \E j \in 1..Len(Lines) :
                   /\ call.body.errors[i].message[2] = Lines[j].material_name
                   /\ Lower(Lines[j].material_name) \notin KnownKeys
        /\ \A n \in ProductNames :
               (\A j \in 1..Len(Lines) :
                    Lines[j].product_name = n => Lower(Lines[j].material_name) \in KnownKeys)
               => ProductsNamed(n) # {}
        /\ \A p \in NewProducts :
               /\ Len(SnapshotsOf(p)) = Len(LinesOf(p.product_name))
               /\ Len(EntriesOf(p)) = Len(LinesOf(p.product_name))
               /\ \A k \in 1..Len(LinesOf(p.product_name)) :
                      LET line == LinesOf(p.product_name)[k]
                          snapshot == SnapshotsOf(p)[k]
                      IN  \E m \in KeptMaterials(Lower(line.material_name)) :
                              /\ snapshot.material_id = m.id
                              /\ EntriesOf(p)[k].material_id = m.id
                              /\ snapshot.price_amount = m.price_amount
                              /\ snapshot.price_quantity = m.price_quantity
                              /\ snapshot.line_cost = fmul(UnitPrice(m), line.quantity_used)
                              /\ m \in materials

\* One product's lines, written in another case than the materials, resolved to a
\* material of the same request and to a material of the owner whose duplicate row in
\* the request carried another price.
C11_Witness ==
    /\ Imported
    /\ \E p \in NewProducts :
       \E k, l \in 1..Len(SnapshotsOf(p)) :
       \E i \in 1..Len(Rows) :
           /\ SnapshotsOf(p)[k].material_id \in {m.id : m \in NewMaterials}
           /\ SnapshotsOf(p)[k].name # LinesOf(p.product_name)[k].material_name
           /\ SnapshotsOf(p)[l].material_id \in {m.id : m \in PriorMaterials}
           /\ RowKey(i) = Lower(SnapshotsOf(p)[l].name)
           /\ Rows[i].price_quantity # SnapshotsOf(p)[l].price_quantity

\* C12: a product created by import has one entry and one snapshot per line of its
\* group, in line order; a snapshot copies the name, unit, price_amount and
\* price_quantity of the resolved material as stored at the import, its
\* market_price_per_unit is derived from that pair, its quantity_used is the line's
\* and its line_cost is market_price_per_unit x quantity_used.
C12_SnapshotPerLine ==
    Imported =>
        \A p \in NewProducts :
            /\ Len(SnapshotsOf(p)) = Len(LinesOf(p.product_name))
            /\ Len(EntriesOf(p)) = Len(LinesOf(p.product_name))
            /\ \A k \in 1..Len(LinesOf(p.product_name)) :
                   LET line == LinesOf(p.product_name)[k]
                       snapshot == SnapshotsOf(p)[k]
                       entry == EntriesOf(p)[k]
                   IN  /\ \E m \in materials :
                              /\ m.id = snapshot.material_id
                              /\ m.user_id = call.user
                              /\ Lower(m.name) = Lower(line.material_name)
                              /\ snapshot.name = m.name
                              /\ snapshot.unit = m.unit
                              /\ snapshot.price_amount = m.price_amount
                              /\ snapshot.price_quantity = m.price_quantity
                       /\ snapshot.market_price_per_unit =
                              IF snapshot.price_quantity # 0
                              THEN fdiv(snapshot.price_amount, snapshot.price_quantity)
                              ELSE 0
                       /\ snapshot.quantity_used = line.quantity_used
                       /\ snapshot.line_cost =
                              fmul(snapshot.market_price_per_unit, line.quantity_used)
                       /\ entry.material_id = snapshot.material_id

\* A product of two lines on two materials was imported, one line with a unit price
\* and a quantity that both count in its cost, the other on a material without a
\* price quantity.
C12_Witness ==
    /\ Imported
    /\ \E p \in NewProducts :
           /\ Len(SnapshotsOf(p)) = 2
           /\ SnapshotsOf(p)[1].material_id # SnapshotsOf(p)[2].material_id
           /\ \E k \in 1..2 :
                  /\ SnapshotsOf(p)[k].line_cost # SnapshotsOf(p)[k].market_price_per_unit
                  /\ SnapshotsOf(p)[k].line_cost # SnapshotsOf(p)[k].quantity_used
                  /\ SnapshotsOf(p)[k].line_cost # 0
           /\ \E k \in 1..2 :
                  /\ SnapshotsOf(p)[k].price_quantity = 0
                  /\ SnapshotsOf(p)[k].price_amount # 0
                  /\ SnapshotsOf(p)[k].line_cost = 0

\* What an answered request to one material or one product did not find: an entity
\* with the id that the caller owned when the request arrived.
OneMaterialOps == {"update_material", "delete_material"}
OneProductOps == {"get_product", "update_product", "delete_product"}
CallerOwnedTarget ==
    \/ /\ call.op \in OneMaterialOps
       /\ \E m \in before.materials : m.id = call.material_id /\ m.user_id = call.user
    \/ /\ call.op \in OneProductOps
       /\ \E p \in before.products : p.id = call.product_id /\ p.user_id = call.user

\* C13: an update or delete of a material, or a get, update or delete of a product,
\* with an id that denotes nothing the caller owns (nothing at all, or another user's)
\* is answered NotFound, without any data, and leaves every material, product, entry
\* and snapshot as it was.
C13_NotOwnedIsNotFound ==
    (call.op \in OneMaterialOps \cup OneProductOps /\ ~CallerOwnedTarget) =>
        /\ call.status = 404
        /\ "body" \notin DOMAIN call
        /\ Tables = before

\* A user asked for another user's product, which has entries and snapshots, and was
\* told it is not there.
C13_Witness ==
    /\ call.op = "get_product"
    /\ call.status = 404
    /\ \E p \in products :
           /\ p.id = call.product_id
           /\ p.user_id # call.user
           /\ \E e \in product_entries : e.product_id = p.id
           /\ \E x \in material_snapshots : x.product_id = p.id

\* What a request to a collection left of the other users' data, and what it found
\* of it.
CollectionOps ==
    {"list_materials", "list_products", "delete_materials", "delete_products",
     "bulk_import"}
OfOtherUsers(tables) ==
    LET others == {p \in tables.products : p.user_id # call.user}
    IN  [materials |-> {m \in tables.materials : m.user_id # call.user},
         products |-> others,
         product_entries |->
             {e \in tables.product_entries : e.product_id \in {p.id : p \in others}},
         material_snapshots |->
             {x \in tables.material_snapshots : x.product_id \in {p.id : p \in others}}]
CallerKeysBefore ==
    {Lower(m.name) : m \in {o \in before.materials : o.user_id = call.user}}

\* C14: a list, a bulk delete or an import by one user never returns, modifies,
\* deletes or resolves against a material or product of another user: a list holds
\* the caller's rows only; the other users' materials and products, with their
\* entries and snapshots, are after the request what they were before it; an import
\* counts a row as a duplicate, and resolves a line, only against the caller's own
\* materials and the request's rows.
C14_CollectionsScopedToCaller ==
    call.op \in CollectionOps =>
        /\ OfOtherUsers(Tables) = OfOtherUsers(before)
        /\ call.op \in {"list_materials", "list_products"} =>
               \A i \in 1..Len(call.body) : call.body[i].user_id = call.user
        /\ call.op = "bulk_import" =>
               LET keys == CallerKeysBefore
                               \cup {Lower(call.data.materials[i].name) :
                                        i \in 1..Len(call.data.materials)}
               IN  /\ call.body.materials_added =
                          Cardinality({Lower(call.data.materials[i].name) :
                                          i \in 1..Len(call.data.materials)}
                                      \ CallerKeysBefore)
                   /\ Len(call.body.errors) =
                          Cardinality({j \in 1..Len(call.data.product_lines) :
                              Lower(call.data.product_lines[j].material_name)
                                  \notin keys})
                   /\ \A x \in material_snapshots \ before.material_snapshots :
                          \E m \in materials :
                              m.id = x.material_id /\ m.user_id = call.user

\* A row of product_entries or material_snapshots without its keys: what was supplied.
SuppliedFields(row) == [f \in DOMAIN row \ {"id", "product_id"} |-> row[f]]
SuppliedRows(rows) == [k \in 1..Len(rows) |-> SuppliedFields(rows[k])]
ChildrenIn(children, product_id) == SortById({c \in children : c.product_id = product_id})

C18_UpdateReplacesCollections ==
    (call.op = "update_product" /\ call.status = 200) =>
        /\ IF "entries" \in DOMAIN call.data
           THEN /\ SuppliedRows(ChildrenIn(product_entries, call.product_id))
                       = call.data.entries
                /\ \A old \in before.product_entries :
                       old.product_id = call.product_id =>
                           \A e \in product_entries : e.id # old.id
           ELSE {e \in product_entries : e.product_id = call.product_id}
                    = {e \in before.product_entries : e.product_id = call.product_id}
        /\ IF "material_snapshots" \in DOMAIN call.data
           THEN /\ SuppliedRows(ChildrenIn(material_snapshots, call.product_id))
                       = call.data.material_snapshots
                /\ \A old \in before.material_snapshots :
                       old.product_id = call.product_id =>
                           \A x \in material_snapshots : x.id # old.id
           ELSE {x \in material_snapshots : x.product_id = call.product_id}
                    = {x \in before.material_snapshots : x.product_id = call.product_id}
        /\ {e \in product_entries : e.product_id # call.product_id}
               = {e \in before.product_entries : e.product_id # call.product_id}
        /\ {x \in material_snapshots : x.product_id # call.product_id}
               = {x \in before.material_snapshots : x.product_id # call.product_id}

\* An update supplied one entry and no snapshots for a product that had two entries
\* and a snapshot: the two entries are gone, the new one is there, the snapshot stays.
C18_Witness ==
    /\ call.op = "update_product"
    /\ call.status = 200
    /\ DOMAIN call.data = {"entries"}
    /\ Cardinality({e \in before.product_entries : e.product_id = call.product_id}) = 2
    /\ Cardinality({e \in product_entries : e.product_id = call.product_id}) = 1
    /\ \E x \in material_snapshots : x.product_id = call.product_id

\* C20: a bulk delete of materials always answers 204; with a non-empty list of ids it
\* removes exactly the caller's materials whose id is in the list, and an id that
\* matches none of them is ignored; with no list, or an empty one, it removes every
\* material of the caller; no other material is removed.
C20_BulkDeleteOfMaterials ==
    call.op = "delete_materials" =>
        /\ call.status = 204
        /\ materials =
               before.materials \
                   {m \in before.materials :
                       /\ m.user_id = call.user
                       /\ call.ids = {} \/ m.id \in call.ids}

\* A bulk delete named one material of the caller and an id that no material has, while
\* the caller had another material: the first is gone, the second is kept.
C20_Witness ==
    /\ call.op = "delete_materials"
    /\ call.status = 204
    /\ \E id \in call.ids : \A m \in before.materials : m.id # id
    /\ \E m \in before.materials \ materials : m.user_id = call.user /\ m.id \in call.ids
    /\ \E m \in materials : m.user_id = call.user

\* C19: every stored product has updated_at at or after created_at; a product update
\* that succeeds, one that supplies nothing included, leaves the product with
\* updated_at at the clock's reading during the update and with created_at as it was;
\* as the clock never goes back, updated_at never goes back.
C19_UpdatedAtFollowsClock ==
    /\ \A p \in products : p.created_at <= p.updated_at /\ p.updated_at <= now
    /\ (call.op = "update_product" /\ call.status = 200) =>
           \E p \in products, old \in before.products :
               /\ p.id = call.product_id
               /\ old.id = call.product_id
               /\ p.updated_at = call.time
               /\ p.updated_at = now
               /\ p.created_at = old.created_at
               /\ p.updated_at >= old.updated_at

\* An update that supplied nothing moved updated_at forward.
C19_Witness ==
    /\ call.op = "update_product"
    /\ call.status = 200
    /\ DOMAIN call.data = {}
    /\ \E p \in products, old \in before.products :
           p.id = old.id /\ p.updated_at > old.updated_at /\ p.created_at < p.updated_at

\* The steps of an import before its commit, and its rollback.
UncommittedSteps == {"import_read", "import_flush", "import_products", "import_abort"}

\* The sessions that flushed materials.
Flushed(s) == sessions[s].pc \in {"flushed", "added", "aborted", "done"}
                  /\ "name_to_material" \in DOMAIN sessions[s]

\* C15: the only step of an import that changes the store is its commit, and the
\* commit adds to the store what the import accepted, all of it: the materials it
\* added and the products it added, with their entries and snapshots; a request that
\* fails before the commit, after the flush of its new materials too, leaves none of
\* its rows in the store.
C15_ImportIsAtomic ==
    /\ call.op \in UncommittedSteps => Tables = before
    /\ call.op = "bulk_import" =>
           LET added == products \ before.products
           IN  /\ materials = before.materials \cup FlushedMaterials(call.session)
               /\ before.materials \cap FlushedMaterials(call.session) = {}
               /\ Cardinality(FlushedMaterials(call.session)) = call.body.materials_added
               /\ before.products \subseteq products
               /\ Cardinality(added) = call.body.products_added
               /\ \A p \in added : p.user_id = call.user
               /\ before.product_entries \subseteq product_entries
               /\ before.material_snapshots \subseteq material_snapshots
               /\ \A p \in added :
                      /\ \E e \in product_entries \ before.product_entries :
                             e.product_id = p.id
                      /\ \E x \in material_snapshots \ before.material_snapshots :
                             x.product_id = p.id
               /\ \A e \in product_entries \ before.product_entries :
                      e.product_id \in {p.id : p \in added}
               /\ \A x \in material_snapshots \ before.material_snapshots :
                      x.product_id \in {p.id : p \in added}
    /\ \A s \in Sessions :
           /\ (Flushed(s) /\ sessions[s].pc # "done") =>
                  \A m \in FlushedMaterials(s), x \in materials : x.id # m.id
           /\ sessions[s].pc = "done" =>
                  /\ FlushedMaterials(s) \subseteq materials
                  /\ sessions[s].added_products \subseteq {p.id : p \in products}

\* An import that had flushed a new material failed, after another import had
\* committed: the store is as it was and the material's id is in no row.
C15_Witness ==
    /\ call.op = "import_abort"
    /\ Flushed(call.session)
    /\ sessions[call.session].materials_added > 0
    /\ \E t \in Sessions : sessions[t].pc = "done" /\ sessions[t].body.products_added > 0
    /\ Tables = before
    /\ \A m \in FlushedMaterials(call.session), x \in materials : x.id # m.id

\* The keys of the rows of an import's materials.
RowKeys(data) == {material_key(data.materials[i]) : i \in 1..Len(data.materials)}

\* Two imports of one owner, each of which made its query before the other committed.
Overlapped(s, t) ==
    /\ s # t
    /\ sessions[s].pc = "done"
    /\ sessions[t].pc = "done"
    /\ sessions[s].user = sessions[t].user
    /\ t \notin sessions[s].started_after
    /\ s \notin sessions[t].started_after

\* C16: when two imports of one owner have both made their query before either
\* committed, each counts as added every row name of its own that the owner did not
\* have, and a name that both carry ends as two materials of the owner with that
\* lower-cased name; and at no point does an import wait for the other: its next
\* step can be taken whatever the other session is doing.
C16_ConcurrentImportsDuplicate ==
    /\ \A s, t \in Sessions :
           Overlapped(s, t) =>
               LET had == {existing_key(sessions[s].existing_materials[i]) :
                              i \in 1..Len(sessions[s].existing_materials)}
               IN  /\ sessions[s].body.materials_added
                          = Cardinality(RowKeys(sessions[s].data) \ had)
                   /\ \A key \in (RowKeys(sessions[s].data)
                                     \cap RowKeys(sessions[t].data)) \ had :
                          Cardinality({m \in materials :
                                          /\ m.user_id = sessions[s].user
                                          /\ Lower(m.name) = key}) = 2
    /\ \A s \in Sessions :
           /\ sessions[s].pc = "idle" =>
                  \A user \in Users, data \in ConcurrentImportRequests :
                      ENABLED ImportRead(s, user, data)
           /\ sessions[s].pc = "read" => ENABLED ImportFlush(s)
           /\ sessions[s].pc = "added" => ENABLED ImportCommit(s)

\* Both imports of one owner were answered with a material added, and the owner has
\* two materials named flour, in different letter cases.
C16_Witness ==
    /\ Overlapped(1, 2)
    /\ sessions[1].body.materials_added > 0
    /\ sessions[2].body.materials_added > 0
    /\ \E m, n \in materials :
           /\ m.id # n.id
           /\ m.user_id = n.user_id
           /\ m.name # n.name
           /\ Lower(m.name) = Lower(n.name)

\* The requests that delete materials, answered 204.
MaterialsDeleted ==
    call.op \in {"delete_material", "delete_materials"} /\ call.status = 204

\* Rows with the reference to a deleted material set to null, otherwise as they were.
Dereferenced(rows, deleted) ==
    {IF r.material_id \in deleted THEN [r EXCEPT !.material_id = None] ELSE r :
        r \in rows}

\* C21: a deletion of materials, single or bulk, deletes no product, entry or
\* snapshot; every entry and every snapshot that referred to a deleted material is
\* still there, its reference null and its other fields as they were, and the other
\* entries and snapshots are as they were.
C21_MaterialDeleteNullsReferences ==
    MaterialsDeleted =>
        LET deleted == {m.id : m \in before.materials \ materials}
        IN  /\ products = before.products
            /\ product_entries = Dereferenced(before.product_entries, deleted)
            /\ material_snapshots = Dereferenced(before.material_snapshots, deleted)

\* C22: every entry and every snapshot belongs to exactly one product of the store,
\* and a deletion of products, single or bulk, leaves no entry or snapshot of a
\* deleted product and keeps those of the other products.
C22_ChildrenOwnedByOneProduct ==
    /\ \A c \in product_entries \cup material_snapshots :
           Cardinality({p \in products : p.id = c.product_id}) = 1
    /\ \A c, d \in product_entries : c.id = d.id => c = d
    /\ \A c, d \in material_snapshots : c.id = d.id => c = d
    /\ call.op \in {"delete_product", "delete_products"} =>
           LET deleted == {p.id : p \in before.products \ products}
           IN  /\ product_entries =
                      {e \in before.product_entries : e.product_id \notin deleted}
               /\ material_snapshots =
                      {x \in before.material_snapshots : x.product_id \notin deleted}

\* A product with two entries and a snapshot was deleted: none of the three is left.
C22_Witness ==
    /\ call.op \in {"delete_product", "delete_products"}
    /\ call.status = 204
    /\ \E p \in before.products \ products :
           /\ Cardinality({e \in before.product_entries : e.product_id = p.id}) = 2
           /\ \E x \in before.material_snapshots : x.product_id = p.id
    /\ product_entries = {}
    /\ material_snapshots = {}

\* Two materials of one owner with one lower-cased name.
SameNamed(m, n) == m.id # n.id /\ m.user_id = n.user_id /\ Lower(m.name) = Lower(n.name)

C24_CreateAlwaysAddsOne ==
    call.op = "create_material" =>
        /\ call.status = 201
        /\ before.materials \subseteq materials
        /\ Cardinality(materials \ before.materials) = 1
        /\ \A m \in materials \ before.materials :
               /\ m.user_id = call.user
               /\ m.name = call.data.name
               /\ m.unit = call.data.unit
               /\ m.price_amount = call.data.price_amount
               /\ m.price_quantity = call.data.price_quantity
               /\ \A n \in before.materials : n.id # m.id
        /\ products = before.products
        /\ product_entries = before.product_entries
        /\ material_snapshots = before.material_snapshots

\* A material was created whose name the caller already had in another letter case.
C24_Witness ==
    /\ call.op = "create_material"
    /\ call.status = 201
    /\ \E m \in materials \ before.materials, n \in before.materials :
           /\ SameNamed(m, n)
           /\ m.name # n.name

\* The columns of a product that an update can assign, and those the result fills.
ScalarFields ==
    {"product_name", "batch_output_quantity", "packaging_cost_per_unit",
     "margin_percentage"}
ResultFields ==
    {"total_material_cost", "cost_per_unit", "final_cost_per_unit", "selling_price"}

\* C25: after a product update every scalar field is the supplied value, or what it
\* was when none was supplied; the four result fields are those of the supplied
\* result, or what they were when no result was supplied, whichever other fields
\* were; the key, the owner and created_at stay.
C25_UpdateAppliesSuppliedOnly ==
    (call.op = "update_product" /\ call.status = 200) =>
        \E new \in products, old \in before.products :
            /\ new.id = call.product_id
            /\ old.id = call.product_id
            /\ products \ {new} = before.products \ {old}
            /\ new.user_id = old.user_id
            /\ new.created_at = old.created_at
            /\ \A f \in ScalarFields :
                   new[f] = IF f \in DOMAIN call.data THEN call.data[f] ELSE old[f]
            /\ \A f \in ResultFields :
                   new[f] = IF "result" \in DOMAIN call.data
                            THEN call.data.result[f]
                            ELSE old[f]

\* An update changed the margin, or the batch output and the packaging cost, of a
\* product with a selling price, and supplied no result: the four figures stayed.
C25_Witness ==
    /\ call.op = "update_product"
    /\ call.status = 200
    /\ "result" \notin DOMAIN call.data
    /\ \E new \in products, old \in before.products :
           /\ new.id = old.id
           /\ new.selling_price # 0
           /\ \/ new.margin_percentage # old.margin_percentage
              \/ /\ new.batch_output_quantity # old.batch_output_quantity
                 /\ new.packaging_cost_per_unit # old.packaging_cost_per_unit
           /\ \A f \in ResultFields : new[f] = old[f]

\* C26: in every import result materials_added + materials_duplicated is the number
\* of material rows, products_added + products_skipped is the number of distinct
\* product names of the lines, products_skipped is at most the number of errors and
\* is zero exactly when there is no error.
C26_CountersConserved ==
    Imported =>
        /\ call.body.materials_added + call.body.materials_duplicated = Len(Rows)
        /\ call.body.products_added + call.body.products_skipped
               = Cardinality(ProductNames)
        /\ call.body.products_skipped <= Len(call.body.errors)
        /\ call.body.products_skipped = 0 <=> call.body.errors = <<>>

\* An import of two rows, one added and one a duplicate, and of three lines in two
\* groups: one group skipped with two errors, the other created.
C26_Witness ==
    /\ Imported
    /\ call.body.materials_added = 1
    /\ call.body.materials_duplicated = 1
    /\ call.body.products_added = 1
    /\ call.body.products_skipped = 1
    /\ Len(call.body.errors) = 2

\* The row reported for an unresolved line.
ReportedRow(i) == call.body.errors[ErrorIndex(i)].row

\* C27, as stated: two different unresolved lines are reported with different rows.
C27_RowsDistinct ==
    Imported =>
        \A i, j \in UnresolvedLines : i # j => ReportedRow(i) # ReportedRow(j)

\* C27, amended: two different unresolved lines of one group are reported with
\* different rows, and two lines reported with one row are lines of different groups.
C27_RowsDistinctInGroup ==
    Imported =>
        \A i, j \in UnresolvedLines :
            (i # j /\ Lines[i].product_name = Lines[j].product_name) =>
                ReportedRow(i) # ReportedRow(j)

\* Three unresolved lines: the two of the first group were reported as rows 0 and 1,
\* the one of the second group as row 1 again.
C27_Witness ==
    /\ Imported
    /\ Cardinality(UnresolvedLines) = 3
    /\ \E i, j, k \in UnresolvedLines :
           /\ i # j
           /\ Lines[i].product_name = Lines[j].product_name
           /\ Lines[k].product_name # Lines[j].product_name
           /\ ReportedRow(i) # ReportedRow(j)
           /\ ReportedRow(j) = ReportedRow(k)

\* The line of the input that stands at place k of the group named n.
LineAt(n, k) == LinesOf(n)[k]

\* C28: an import groups the product lines by the product name as it is written: each
\* name whose lines all resolve yields one product of exactly that name, holding
\* exactly the lines of that name, so that two names differing in letter case only
\* yield two products; and it resolves a material name whatever its letter case: the
\* snapshot of a line is of a material whose lower-cased name is the line's
\* lower-cased material name, the same material for every spelling.
C28_GroupsExactResolvesFolded ==
    Imported =>
        /\ \A n \in ProductNames :
               ~SkippedName(n) =>
                   /\ Cardinality(ProductsNamed(n)) = 1
                   /\ \A p \in ProductsNamed(n) :
                          /\ Len(SnapshotsOf(p)) = Len(LinesOf(n))
                          /\ \A k \in 1..Len(LinesOf(n)) :
                                 Lower(SnapshotsOf(p)[k].name)
                                     = Lower(LineAt(n, k).material_name)
        /\ Cardinality(NewProducts)
               = Cardinality({n \in ProductNames : ~SkippedName(n)})
        /\ \A p, q \in NewProducts : \A k \in 1..Len(SnapshotsOf(p)) :
               \A l \in 1..Len(SnapshotsOf(q)) :
                   Lower(SnapshotsOf(p)[k].name) = Lower(SnapshotsOf(q)[l].name) =>
                       SnapshotsOf(p)[k].material_id = SnapshotsOf(q)[l].material_id

\* The lines "C"/"fl" and "c"/"FL" were imported over the material "Fl": two products,
\* "C" and "c", each with a snapshot of that material.
C28_Witness ==
    /\ Imported
    /\ Len(Lines) = 2
    /\ Lines[1].product_name # Lines[2].product_name
    /\ Lower(Lines[1].product_name) = Lower(Lines[2].product_name)
    /\ Lines[1].material_name # Lines[2].material_name
    /\ Cardinality(NewProducts) = 2
    /\ \E m \in materials : \A x \in NewSnapshots :
           /\ x.material_id = m.id
           /\ m.name # Lines[1].material_name
           /\ m.name # Lines[2].material_name

\* The answer to an import that was sent again as soon as it had been answered.
Rerun == Imported /\ call.again

\* The owner's products of a name.
OwnProductsNamed(n) == {p \in products : p.product_name = n /\ p.user_id = call.user}

\* C29: the second of two runs of one import request, one after the other, adds no
\* material: materials_added is 0, materials_duplicated is the number of rows and the
\* materials are as they were; and it adds a product for every group whose lines all
\* resolve, as many as the first run added, each beside the product of that name that
\* the first run left.
C29_RerunAddsProductsOnly ==
    Rerun =>
        /\ call.body.materials_added = 0
        /\ call.body.materials_duplicated = Len(Rows)
        /\ materials = before.materials
        /\ before.products \subseteq products
        /\ call.body.products_added = Cardinality({n \in ProductNames : ~SkippedName(n)})
        /\ call.body.products_added = call.previous.products_added
        /\ call.body.products_skipped = call.previous.products_skipped
        /\ Cardinality(NewProducts) = call.body.products_added
        /\ \A n \in ProductNames :
               ~SkippedName(n) =>
                   /\ Cardinality(ProductsNamed(n)) = 1
                   /\ Cardinality(OwnProductsNamed(n)) >= 2

\* The first run added a material and two products, and skipped none; the second run
\* added no material and two more products.
C29_Witness ==
    /\ Rerun
    /\ call.previous.materials_added > 0
    /\ call.previous.products_added = 2
    /\ call.body.materials_added = 0
    /\ call.body.products_added = 2
    /\ materials = before.materials
    /\ Cardinality(products) = 4

\* C30: every entry and every snapshot with a material reference refers to a
\* material of the user whose product it belongs to.
C30_ReferencesWithinOwner ==
    \A p \in products : \A c \in product_entries \cup material_snapshots :
        (c.product_id = p.id /\ c.material_id # None) =>
            \E m \in materials : m.id = c.material_id /\ m.user_id = p.user_id

====
